---- MODULE Spec2Model ----
(***************************************************************************)
(* FinGuide Pro: the financial computation layer (ratio engine,            *)
(* intermediate balances, recommendations) of man.py and app.py.           *)
(*                                                                         *)
(* Conventions of the model                                                *)
(*  - a Python dict is a TLA+ function over strings; an insertion-ordered  *)
(*    result whose order matters (the SIG) is a sequence of <<key, value>>;*)
(*  - a monetary amount is an integer (whole currency units);              *)
(*  - a float computed by a division is the exact rational <<n, d>> with   *)
(*    d > 0 in lowest terms, and float('inf') is <<1, 0>>; comparisons     *)
(*    cross-multiply.                                                      *)
(*    Binary rounding of the quotient is not modelled.                     *)
(***************************************************************************)
EXTENDS Integers, Sequences, FiniteSets, TLC

VARIABLES
    balance_sheet,      \* st.session_state.balance_sheet
    income_statement,   \* st.session_state.income_statement
    ratios,             \* man.py: first component returned by calculate_comprehensive_ratios
    interpretations,    \* man.py: second component returned by calculate_comprehensive_ratios
    app_ratios,         \* app.py: dict returned by calculate_ratios
    app_recommendations, \* app.py: the list built by the recommendation tab
    sig,                \* man.py: dict returned by calculate_intermediate_balances (insertion order)
    app_sig,            \* app.py: sig_data of show_income_statement (rows in order)
    called,             \* the functions that have returned so far
    raised,             \* the functions whose call let an exception escape
    key_order,          \* iteration order of the nested balance_sheet dict (item paths)
    edits,              \* number_input assignments since the templates were installed
    bilan_data,         \* rows built by the balance-sheet loop of the report
    bilan_df,           \* app3.py: the 'Bilan' sheet, Poste -> Montant
    resultat_df,        \* app3.py: the 'Résultat' sheet, Poste -> Montant
    app3_ratios,        \* app3.py: dict returned by its calculate_ratios
    current_step,       \* st.session_state.current_step of the balance-sheet assistant
    learning_path_completed, \* man.py: st.session_state.learning_path_completed
    equilibre,          \* what the last run of the balance module displayed in 'Equilibre'
    financial_data,     \* finguie_Pro.py: st.session_state.financial_data
    audit_ratios,       \* finguie_Pro.py: st.session_state.ratios
    risks,              \* finguie_Pro.py: st.session_state.risks
    recommendations,    \* finguie_Pro.py: st.session_state.recommendations
    whatif_scenarios,   \* finguie_Pro.py: st.session_state.whatif_scenarios
    audit_step,         \* finguie_Pro.py: st.session_state.current_step
    consumer_args       \* finguie_Pro.py: who was last handed the session's ratios, and with what

session_vars == <<key_order, edits, bilan_data>>

app3_vars == <<bilan_df, resultat_df, app3_ratios>>

wizard_vars == <<current_step, learning_path_completed, equilibre>>

audit_vars == <<financial_data, audit_ratios, risks, recommendations,
                whatif_scenarios, audit_step, consumer_args>>

vars == <<balance_sheet, income_statement, ratios, interpretations,
          app_ratios, app_recommendations, sig, app_sig, called, raised, session_vars, app3_vars,
          wizard_vars, audit_vars>>

(***************************************************************************)
(* Bounds of the input families.                                           *)
(***************************************************************************)
MaxAmount == 3
MaxEdits == 2

\* Amounts a form field can hold (app.py's number_input has no min_value).
Amounts == (-1) .. MaxAmount

(***************************************************************************)
(* Python values.                                                          *)
(***************************************************************************)
None == [None |-> TRUE]

EmptyDict == <<>>

\* Variant: only None counts as absent (`balance_sheet is None`).
Truthy_NotNone(d) == d # None

\* bool(x) of a dict or None: `not balance_sheet`
Truthy(d) == d # None /\ DOMAIN d # {}

\* d.get(k, default)
Get(d, k, default) == IF k \in DOMAIN d THEN d[k] ELSE default

RECURSIVE SumOver(_, _)
SumOver(d, keys) ==
    IF keys = {} THEN 0
    ELSE LET k == CHOOSE x \in keys : TRUE
         IN  d[k] + SumOver(d, keys \ {k})

\* sum(d.values())
SumValues(d) == SumOver(d, DOMAIN d)

RECURSIVE SumSections(_, _)
SumSections(section, keys) ==
    IF keys = {} THEN 0
    ELSE LET k == CHOOSE x \in keys : TRUE
         IN  SumValues(section[k]) + SumSections(section, keys \ {k})

\* sum([sum(v.values()) for v in section.values()])
SumOfSums(section) == SumSections(section, DOMAIN section)

(***************************************************************************)
(* Floats as exact rationals <<numerator, denominator>>, denominator >= 0. *)
(***************************************************************************)
Inf == <<1, 0>>
Amount(n) == <<n, 1>>

Abs(n) == IF n < 0 THEN -n ELSE n

RECURSIVE GCD(_, _)
GCD(a, b) == IF b = 0 THEN a ELSE GCD(b, a % b)

\* The lowest terms of n/d: one value, one representation.
Norm(n, d) ==
    IF d = 0 THEN Inf
    ELSE LET g == GCD(Abs(n), Abs(d))
         IN  <<n \div g, d \div g>>

Div(a, b) == Norm(a, b)
Times(r, k) == Norm(r[1] * k, r[2])
Minus(r, q) == Norm(r[1] * q[2] - q[1] * r[2], r[2] * q[2])
RatLT(r, q) == r[1] * q[2] < q[1] * r[2]
RatGT(r, q) == RatLT(q, r)
RatEq(r, q) == r[1] * q[2] = q[1] * r[2]

(***************************************************************************)
(* Templates.                                                              *)
(***************************************************************************)
create_balance_sheet_template ==
    ("Actif" :>
        (("Actif Immobilisé" :>
            (("Immobilisations incorporelles" :> 0) @@
             ("Immobilisations corporelles" :> 0) @@
             ("Immobilisations financières" :> 0))) @@
         ("Actif Circulant" :>
            (("Stocks" :> 0) @@
             ("Créances clients" :> 0) @@
             ("Disponibilités (caisse et banque)" :> 0) @@
             ("Autres actifs circulants" :> 0))))) @@
    ("Passif" :>
        (("Capitaux Propres" :>
            (("Capital social" :> 0) @@
             ("Réserves" :> 0) @@
             ("Résultat de l'exercice" :> 0))) @@
         ("Dettes" :>
            (("Dettes financières (emprunts)" :> 0) @@
             ("Dettes fournisseurs" :> 0) @@
             ("Autres dettes (fiscales, sociales)" :> 0)))))

create_income_statement_template ==
    ("Chiffre_affaires" :> 0) @@
    ("Achats_marchandises" :> 0) @@
    ("Variation_stocks" :> 0) @@
    ("Autres_achats_charges_externes" :> 0) @@
    ("Impots_taxes" :> 0) @@
    ("Charges_personnel" :> 0) @@
    ("Dotations_amortissements" :> 0) @@
    ("Autres_charges" :> 0) @@
    ("Produits_financiers" :> 0) @@
    ("Charges_financieres" :> 0) @@
    ("Impot_benefices" :> 0)

\* The item paths of the balance-sheet template in declaration order, which
\* is the iteration order of the nested dict it returns.
TemplateOrder ==
    <<<<"Actif", "Actif Immobilisé", "Immobilisations incorporelles">>,
      <<"Actif", "Actif Immobilisé", "Immobilisations corporelles">>,
      <<"Actif", "Actif Immobilisé", "Immobilisations financières">>,
      <<"Actif", "Actif Circulant", "Stocks">>,
      <<"Actif", "Actif Circulant", "Créances clients">>,
      <<"Actif", "Actif Circulant", "Disponibilités (caisse et banque)">>,
      <<"Actif", "Actif Circulant", "Autres actifs circulants">>,
      <<"Passif", "Capitaux Propres", "Capital social">>,
      <<"Passif", "Capitaux Propres", "Réserves">>,
      <<"Passif", "Capitaux Propres", "Résultat de l'exercice">>,
      <<"Passif", "Dettes", "Dettes financières (emprunts)">>,
      <<"Passif", "Dettes", "Dettes fournisseurs">>,
      <<"Passif", "Dettes", "Autres dettes (fiscales, sociales)">>>>

\* app3.py: the demonstration data used when no file is uploaded.
DemoBilan ==
    ("Actif Circulant" :> 60000) @@
    ("Actif Immobilisé" :> 100000) @@
    ("Passif Circulant" :> 50000) @@
    ("Capitaux Propres" :> 70000) @@
    ("Dettes LT" :> 40000)

DemoResultat ==
    ("Chiffre d'affaires" :> 120000) @@
    ("Résultat Net" :> 15000) @@
    ("Charges Fixes" :> 70000)

(***************************************************************************)
(* man.py: calculate_comprehensive_ratios.                                 *)
(***************************************************************************)
\* sum(balance_sheet['Actif']['Actif Circulant'].values())
actif_circulant(bs) == SumValues(bs["Actif"]["Actif Circulant"])

\* sum(balance_sheet['Passif']['Dettes'].values())
passif_circulant(bs) == SumValues(bs["Passif"]["Dettes"])

total_actif(bs) == SumOfSums(bs["Actif"])

total_passif(bs) == SumOfSums(bs["Passif"])

\* sum(balance_sheet['Passif']['Capitaux Propres'].values())
capitaux_propres(bs) == SumValues(bs["Passif"]["Capitaux Propres"])

\* The subscripts of the basic computations raise KeyError on a sheet that
\* lacks one of these subsections.
RaisesKeyError(bs) ==
    \/ "Actif" \notin DOMAIN bs
    \/ "Passif" \notin DOMAIN bs
    \/ "Actif Circulant" \notin DOMAIN bs["Actif"]
    \/ "Dettes" \notin DOMAIN bs["Passif"]
    \/ "Capitaux Propres" \notin DOMAIN bs["Passif"]

\* CA = income_statement.get('Chiffre_affaires', 0.0)
ChiffreAffaires(is) == Get(is, "Chiffre_affaires", 0)

\* Variant: financial income netted against the charges.
charges_totales_NetOfFinancialIncome(is) ==
    SumOver(is, DOMAIN is \ {"Chiffre_affaires", "Produits_financiers"})
    - Get(is, "Produits_financiers", 0)

\* Variant: the financial income counted among the charges (only the revenue
\* is left out of the sum).
charges_totales_AllButRevenue(is) ==
    SumOver(is, DOMAIN is \ {"Chiffre_affaires"})

\* sum([v for k, v in income_statement.items()
\*      if k not in ['Chiffre_affaires', 'Produits_financiers']])
charges_totales(is) ==
    SumOver(is, DOMAIN is \ {"Chiffre_affaires", "Produits_financiers"})

resultat_net(is) == ChiffreAffaires(is) - charges_totales(is)

\* ratios['Fond de Roulement (FR)']
FondDeRoulement(ac, pc) == Amount(ac - pc)

\* Variant: the division guarded by `!= 0`.
RatioLiquidite_NonZeroGuard(ac, pc) == IF pc # 0 THEN Div(ac, pc) ELSE Inf

\* ratios['Ratio de Liquidité']
RatioLiquidite(ac, pc) == IF pc > 0 THEN Div(ac, pc) ELSE Inf

\* ratios['Taux d\'endettement'], present only under its guard
TauxEndettement(pc, ta) ==
    IF ta > 0 THEN "Taux d'endettement" :> Times(Div(pc, ta), 100) ELSE EmptyDict

\* Variant: a ROA of 0 stored when there are no assets.
ROA_ZeroWhenNoAssets(rn, ta) ==
    IF ta > 0 THEN "ROA (%)" :> Times(Div(rn, ta), 100) ELSE "ROA (%)" :> Amount(0)

\* ratios['ROA (%)']
ROA(rn, ta) ==
    IF ta > 0 THEN "ROA (%)" :> Times(Div(rn, ta), 100) ELSE EmptyDict

\* Variant: the division guarded by `!= 0`.
ROE_NonZeroGuard(rn, cp) ==
    IF cp # 0 THEN "ROE (%)" :> Times(Div(rn, cp), 100) ELSE EmptyDict

\* ratios['ROE (%)']
ROE(rn, cp) ==
    IF cp > 0 THEN "ROE (%)" :> Times(Div(rn, cp), 100) ELSE EmptyDict

\* Variant: the division guarded by `!= 0`.
MargeNette_NonZeroGuard(rn, CA) ==
    IF CA # 0 THEN "Marge Nette (%)" :> Times(Div(rn, CA), 100) ELSE EmptyDict

\* ratios['Marge Nette (%)']
MargeNette(rn, CA) ==
    IF CA > 0 THEN "Marge Nette (%)" :> Times(Div(rn, CA), 100) ELSE EmptyDict

\* ratios['Rotation des actifs']
RotationActifs(CA, ta) ==
    IF ta > 0 THEN "Rotation des actifs" :> Div(CA, ta) ELSE EmptyDict

\* ratios['Délai moyen stocks (jours)']
DelaiStocks(stocks, CA) ==
    IF CA > 0 /\ stocks > 0
    THEN "Délai moyen stocks (jours)" :> Times(Div(stocks, CA), 360)
    ELSE EmptyDict

\* Variant: trade payables added to the need instead of financing it.
BFRExploitation_PayablesAdded(bs) ==
    Amount(Get(bs["Actif"]["Actif Circulant"], "Stocks", 0)
           + Get(bs["Actif"]["Actif Circulant"], "Créances clients", 0)
           + Get(bs["Passif"]["Dettes"], "Dettes fournisseurs", 0))

\* ratios['BFR Exploitation'] = stocks + creances - dettes_fournisseurs
BFRExploitation(bs) ==
    Amount(Get(bs["Actif"]["Actif Circulant"], "Stocks", 0)
           + Get(bs["Actif"]["Actif Circulant"], "Créances clients", 0)
           - Get(bs["Passif"]["Dettes"], "Dettes fournisseurs", 0))

InterpretationLiquidite(liquidite) ==
    IF RatGT(liquidite, <<3, 2>>)
    THEN [statut |-> "excellente", couleur |-> "ratio-good",
          conseil |-> "Votre entreprise dispose d'une excellente capacité à honorer ses dettes à court terme."]
    ELSE IF RatGT(liquidite, Amount(1))
    THEN [statut |-> "suffisante", couleur |-> "ratio-warning",
          conseil |-> "Votre liquidité est acceptable mais mérite surveillance. Pensez à optimiser votre BFR."]
    ELSE [statut |-> "critique", couleur |-> "ratio-danger",
          conseil |-> "Risque élevé de défaut. Actions urgentes recommandées : réduire BFR, renégocier délais."]

InterpretationSolvabilite(endettement) ==
    IF RatLT(endettement, Amount(50))
    THEN [statut |-> "saine", couleur |-> "ratio-good",
          conseil |-> "Structure financière équilibrée. Votre entreprise est peu dépendante des dettes."]
    ELSE IF RatLT(endettement, Amount(70))
    THEN [statut |-> "modérée", couleur |-> "ratio-warning",
          conseil |-> "Endettement à surveiller. Évitez de nouvelles dettes à court terme."]
    ELSE [statut |-> "élevée", couleur |-> "ratio-danger",
          conseil |-> "Risque de solvabilité. Priorité : réduire la dette et augmenter les capitaux propres."]

InterpretationRentabilite(roa) ==
    IF RatGT(roa, Amount(10))
    THEN [statut |-> "excellente", couleur |-> "ratio-good",
          conseil |-> "Vos actifs génèrent une rentabilité supérieure à la moyenne."]
    ELSE IF RatGT(roa, Amount(5))
    THEN [statut |-> "satisfaisante", couleur |-> "ratio-warning",
          conseil |-> "Rentabilité correcte. Pensez à optimiser l'utilisation de vos actifs."]
    ELSE [statut |-> "faible", couleur |-> "ratio-danger",
          conseil |-> "Rentabilité insuffisante. Améliorez votre marge ou la rotation des actifs."]

RecLiquidite ==
    [priorite |-> "Haute",
     titre    |-> "Améliorer la liquidité",
     actions  |-> <<"Renégocier les délais de paiement avec les fournisseurs",
                    "Accélérer l'encaissement des créances clients",
                    "Réduire les stocks inutiles">>,
     impact   |-> "Réduction du risque de défaut de paiement"]

RecRotation ==
    [priorite |-> "Moyenne",
     titre    |-> "Optimiser la rotation des actifs",
     actions  |-> <<"Revendre les immobilisations sous-utilisées",
                    "Sous-traiter plutôt qu'investir",
                    "Améliorer l'efficacité opérationnelle">>,
     impact   |-> "Augmentation de la rentabilité des investissements"]

RecEndettement ==
    [priorite |-> "Haute",
     titre    |-> "Réduire l'endettement",
     actions  |-> <<"Augmenter les capitaux propres (augmentation de capital)",
                    "Renégocier les taux d'intérêt",
                    "Rembourser par anticipation si possible">>,
     impact   |-> "Amélioration de la solvabilité et réduction des charges financières"]

RecRentabilite ==
    [priorite |-> "Moyenne",
     titre    |-> "Améliorer la rentabilité",
     actions  |-> <<"Augmenter les prix ou réduire les coûts",
                    "Développer de nouveaux produits/services",
                    "Optimiser le mix produits">>,
     impact   |-> "Augmentation du résultat net et des capacités d'autofinancement"]

\* recommendations = []; four independent `if ...: recommendations.append`
Recommandations(liquidite, rotation, endettement, roa) ==
    (IF RatLT(liquidite, Amount(1)) THEN <<RecLiquidite>> ELSE <<>>)
    \o (IF RatLT(rotation, <<1, 2>>) THEN <<RecRotation>> ELSE <<>>)
    \o (IF RatGT(endettement, Amount(70)) THEN <<RecEndettement>> ELSE <<>>)
    \o (IF RatLT(roa, Amount(5)) THEN <<RecRentabilite>> ELSE <<>>)

\* The body of the try block once the basic computations have succeeded.
ComprehensiveRatios(bs, is) ==
    LET ac == actif_circulant(bs)
        pc == passif_circulant(bs)
        ta == total_actif(bs)
        cp == capitaux_propres(bs)
        CA == ChiffreAffaires(is)
        rn == resultat_net(is)
        stocks == Get(bs["Actif"]["Actif Circulant"], "Stocks", 0)
        fr  == FondDeRoulement(ac, pc)
        bfr == BFRExploitation(bs)
    IN  ("Fond de Roulement (FR)" :> fr)
        @@ ("Ratio de Liquidité" :> RatioLiquidite(ac, pc))
        @@ TauxEndettement(pc, ta)
        @@ ROA(rn, ta)
        @@ ROE(rn, cp)
        @@ MargeNette(rn, CA)
        @@ RotationActifs(CA, ta)
        @@ DelaiStocks(stocks, CA)
        @@ ("BFR Exploitation" :> bfr)
        @@ ("Trésorerie Nette" :> Minus(fr, bfr))

\* interpretations, read from the ratios with `ratios.get(key, 0)`
Interpretations(r) ==
    LET liquidite   == Get(r, "Ratio de Liquidité", Amount(0))
        endettement == Get(r, "Taux d'endettement", Amount(0))
        roa         == Get(r, "ROA (%)", Amount(0))
        rotation    == Get(r, "Rotation des actifs", Amount(0))
    IN  ("Liquidité" :> InterpretationLiquidite(liquidite))
        @@ ("Solvabilité" :> InterpretationSolvabilite(endettement))
        @@ ("Rentabilité" :> InterpretationRentabilite(roa))
        @@ ("Recommandations" :>
                Recommandations(liquidite, rotation, endettement, roa))

\* get_ratio_interpretation: `'...' in ratio_name` on the names of the RatioSet.
NameContains(ratio_name, part) ==
    \/ part = "Liquidité" /\ ratio_name = "Ratio de Liquidité"
    \/ part = "Taux d'endettement" /\ ratio_name = "Taux d'endettement"
    \/ part = "ROA" /\ ratio_name = "ROA (%)"
    \/ part = "ROE" /\ ratio_name = "ROE (%)"
    \/ part = "Marge Nette" /\ ratio_name = "Marge Nette (%)"
    \/ part = "Rotation" /\ ratio_name \in {"Rotation des actifs"}

get_ratio_interpretation(ratio_name, value) ==
    IF NameContains(ratio_name, "Liquidité")
    THEN IF RatGT(value, <<3, 2>>)
         THEN "Excellente capacité à honorer les dettes court terme"
         ELSE IF RatGT(value, Amount(1))
         THEN "Capacité suffisante mais surveillance recommandée"
         ELSE "Risque de liquidité - Actions correctives urgentes"
    ELSE IF NameContains(ratio_name, "Taux d'endettement")
    THEN IF RatLT(value, Amount(50))
         THEN "Structure financière saine et équilibrée"
         ELSE IF RatLT(value, Amount(70))
         THEN "Endettement modéré - Surveillance recommandée"
         ELSE "Endettement élevé - Risque pour la solvabilité"
    ELSE IF NameContains(ratio_name, "ROA")
    THEN IF RatGT(value, Amount(10))
         THEN "Rentabilité excellente des actifs"
         ELSE IF RatGT(value, Amount(5))
         THEN "Rentabilité satisfaisante"
         ELSE "Rentabilité à améliorer"
    ELSE IF NameContains(ratio_name, "ROE")
    THEN IF RatGT(value, Amount(15))
         THEN "Très bon retour pour les actionnaires"
         ELSE IF RatGT(value, Amount(10))
         THEN "Retour satisfaisant sur fonds propres"
         ELSE "Rentabilité des capitaux à améliorer"
    ELSE IF NameContains(ratio_name, "Marge Nette")
    THEN IF RatGT(value, Amount(15))
         THEN "Marge excellente"
         ELSE IF RatGT(value, Amount(8))
         THEN "Marge satisfaisante"
         ELSE "Marge à optimiser"
    ELSE IF NameContains(ratio_name, "Rotation")
    THEN IF RatGT(value, Amount(1))
         THEN "Efficacité opérationnelle excellente"
         ELSE IF RatGT(value, <<1, 2>>)
         THEN "Efficacité correcte"
         ELSE "Efficacité à améliorer - Actifs sous-utilisés"
    ELSE "À analyser dans le contexte sectoriel"

\* show_financial_analysis, detailed action plan: the improvement axes read
\* from the ratios, each <<axe, statut, couleur>>.
axes_amelioration(r) ==
    LET liquidite   == Get(r, "Ratio de Liquidité", Amount(0))
        endettement == Get(r, "Taux d'endettement", Amount(0))
        roa         == Get(r, "ROA (%)", Amount(0))
        rotation    == Get(r, "Rotation des actifs", Amount(0))
    IN  (IF RatLT(liquidite, Amount(1))
         THEN << <<"Liquidité", "Critique", "#EF4444">> >>
         ELSE IF RatLT(liquidite, <<3, 2>>)
         THEN << <<"Liquidité", "À améliorer", "#F59E0B">> >>
         ELSE << >>)
        \o (IF RatGT(endettement, Amount(70))
            THEN << <<"Endettement", "Critique", "#EF4444">> >>
            ELSE IF RatGT(endettement, Amount(50))
            THEN << <<"Endettement", "À surveiller", "#F59E0B">> >>
            ELSE << >>)
        \o (IF RatLT(roa, Amount(5))
            THEN << <<"Rentabilité", "À améliorer", "#F59E0B">> >>
            ELSE << >>)
        \o (IF RatLT(rotation, <<1, 2>>)
            THEN << <<"Efficacité", "À optimiser", "#F59E0B">> >>
            ELSE << >>)

calculate_comprehensive_ratios(bs, is) ==
    IF ~Truthy(bs) \/ ~Truthy(is)
    THEN [ratios |-> EmptyDict, interpretations |-> EmptyDict]
    ELSE IF RaisesKeyError(bs)
    THEN [ratios |-> EmptyDict, interpretations |-> EmptyDict]
    ELSE LET r == ComprehensiveRatios(bs, is)
         IN  [ratios |-> r, interpretations |-> Interpretations(r)]

(***************************************************************************)
(* app.py: calculate_ratios.                                               *)
(***************************************************************************)
\* if passif_circulant > 0: ... else: ratios['Fond_de_Roulement'] = actif_circulant
AppFondDeRoulement(ac, pc) == IF pc > 0 THEN Amount(ac - pc) ELSE Amount(ac)

AppRatioLiquidite(ac, pc) == IF pc > 0 THEN Div(ac, pc) ELSE Inf

AppROA(rn, ta) ==
    IF ta > 0 THEN "ROA" :> Times(Div(rn, ta), 100) ELSE EmptyDict

\* resultat_net = ca - sum([v for k, v in income_statement.items()
\*                          if k not in ['Chiffre_affaires', 'Produits_financiers']])
app_resultat_net(is) ==
    Get(is, "Chiffre_affaires", 0)
    - SumOver(is, DOMAIN is \ {"Chiffre_affaires", "Produits_financiers"})

AppRaisesKeyError(bs) ==
    \/ "Actif" \notin DOMAIN bs
    \/ "Passif" \notin DOMAIN bs
    \/ "Actif Circulant" \notin DOMAIN bs["Actif"]
    \/ "Dettes" \notin DOMAIN bs["Passif"]

calculate_ratios(bs, is) ==
    IF ~Truthy(bs) \/ ~Truthy(is) THEN EmptyDict
    ELSE IF AppRaisesKeyError(bs) THEN EmptyDict
    ELSE LET ac == SumValues(bs["Actif"]["Actif Circulant"])
             pc == SumValues(bs["Passif"]["Dettes"])
             ta == SumOfSums(bs["Actif"])
         IN  ("Fond_de_Roulement" :> AppFondDeRoulement(ac, pc))
             @@ ("Ratio_de_Liquidite" :> AppRatioLiquidite(ac, pc))
             @@ AppROA(app_resultat_net(is), ta)

\* show_financial_analysis: the message under the liquidity metrics
\* (st.success, st.warning or st.error; the pictogram of the text left out),
\* from liquidite = ratios.get('Ratio_de_Liquidite', 0.0)
AppLiquidityMessage(r) ==
    LET liquidite == Get(r, "Ratio_de_Liquidite", Amount(0))
    IN  IF RatGT(liquidite, <<3, 2>>)
        THEN [st |-> "success", text |-> "Excellente liquidité"]
        ELSE IF RatGT(liquidite, Amount(1))
        THEN [st |-> "warning", text |-> "Liquidité à surveiller"]
        ELSE [st |-> "error", text |-> "Risque de liquidité"]

(***************************************************************************)
(* app3.py: calculate_ratios on the two DataFrames.  The 'Montant (€)'     *)
(* column is numeric, so the cells are numpy numbers: a division by zero   *)
(* gives inf, -inf or nan (with a RuntimeWarning) instead of raising.      *)
(***************************************************************************)
NegInf == <<-1, 0>>
NaN == <<0, 0>>

\* numpy true division
NumpyDiv(a, b) ==
    IF b = 0 THEN (IF a > 0 THEN Inf ELSE IF a < 0 THEN NegInf ELSE NaN)
    ELSE IF b < 0 THEN Norm(-a, -b)
    ELSE Norm(a, b)

\* x * 100 on a numpy float: inf and nan stay what they are
NumpyTimes(r, k) == IF r[2] = 0 THEN r ELSE Times(r, k)

\* round(x, 2): to the nearest hundredth, ties to the even one; inf and nan
\* are returned unchanged
Round2(r) ==
    IF r[2] = 0 THEN r
    ELSE LET n == r[1] * 100
             q == n \div r[2]
             twice == 2 * (n % r[2])
             hundredths == IF twice > r[2] THEN q + 1
                           ELSE IF twice < r[2] THEN q
                           ELSE IF q % 2 = 0 THEN q ELSE q + 1
         IN  Norm(hundredths, 100)

\* bilan.loc[bilan['Poste'] == poste, "Montant (€)"].values[0] raises
\* IndexError when no row has that Poste.
App3RaisesIndexError(bilan, resultat) ==
    \/ {"Actif Circulant", "Actif Immobilisé", "Passif Circulant",
         "Capitaux Propres", "Dettes LT"} \ DOMAIN bilan # {}
    \/ {"Chiffre d'affaires", "Résultat Net"} \ DOMAIN resultat # {}

\* The body of app3.py's calculate_ratios once the seven cells are read.
app3_calculate_ratios(bilan, resultat) ==
    LET ac == bilan["Actif Circulant"]
        ai == bilan["Actif Immobilisé"]
        pc == bilan["Passif Circulant"]
        cp == bilan["Capitaux Propres"]
        dt == bilan["Dettes LT"]
        ca == resultat["Chiffre d'affaires"]
        rn == resultat["Résultat Net"]
        total_actif_ == ac + ai
        total_passif_ == cp + pc + dt
    IN  [ratios |->
            ("Ratio de Liquidité" :> Round2(NumpyDiv(ac, pc)))
            @@ ("Taux d'endettement" :>
                    Round2(NumpyTimes(NumpyDiv(pc + dt, total_actif_), 100)))
            @@ ("ROA" :> Round2(NumpyTimes(NumpyDiv(rn, total_actif_), 100)))
            @@ ("Marge nette" :> Round2(NumpyTimes(NumpyDiv(rn, ca), 100))),
         actif_total |-> total_actif_,
         passif_total |-> total_passif_]

(***************************************************************************)
(* Intermediate balances (SIG): man.py calculate_intermediate_balances and *)
(* the inline computation of app.py's show_income_statement.               *)
(***************************************************************************)
\* Variant: the margin computed without the revenue guard.
MargeCommerciale_Unguarded(CA, achats, var_stocks) == CA - achats + var_stocks

\* sig['Marge Commerciale'] = CA - achats + var_stocks if CA > 0 else 0.0
MargeCommerciale(CA, achats, var_stocks) ==
    IF CA > 0 THEN CA - achats + var_stocks ELSE 0

\* sig['Valeur Ajoutée'] = sig['Marge Commerciale'] - autres_charges
ValeurAjoutee(marge_commerciale, autres_charges) ==
    marge_commerciale - autres_charges

\* sig['EBE (Excédent Brut d\'Exploitation)'] = sig['Valeur Ajoutée'] - charges_personnel
ExcedentBrutExploitation(valeur_ajoutee, charges_personnel) ==
    valeur_ajoutee - charges_personnel

\* sig['Résultat Exploitation'] = sig['EBE ...'] - dotations
ResultatExploitation(ebe, dotations) == ebe - dotations

\* Variant: financial income subtracted like a charge.
ResultatCourant_IncomeAsCharge(resultat_exploitation, produits_financiers, charges_financieres) ==
    resultat_exploitation - produits_financiers - charges_financieres

\* sig['Résultat Courant'] = sig['Résultat Exploitation'] + produits_financiers - charges_financieres
ResultatCourant(resultat_exploitation, produits_financiers, charges_financieres) ==
    resultat_exploitation + produits_financiers - charges_financieres

\* sig['Résultat Net'] = sig['Résultat Courant'] - impot
ResultatNetSig(resultat_courant, impot) == resultat_courant - impot

\* The six values, each from the previous one.
Cascade(is) ==
    LET CA                  == Get(is, "Chiffre_affaires", 0)
        achats              == Get(is, "Achats_marchandises", 0)
        var_stocks          == Get(is, "Variation_stocks", 0)
        autres_charges      == Get(is, "Autres_achats_charges_externes", 0)
        charges_personnel   == Get(is, "Charges_personnel", 0)
        dotations           == Get(is, "Dotations_amortissements", 0)
        produits_financiers == Get(is, "Produits_financiers", 0)
        charges_financieres == Get(is, "Charges_financieres", 0)
        impot               == Get(is, "Impot_benefices", 0)
        marge_commerciale     == MargeCommerciale(CA, achats, var_stocks)
        valeur_ajoutee        == ValeurAjoutee(marge_commerciale, autres_charges)
        ebe                   == ExcedentBrutExploitation(valeur_ajoutee, charges_personnel)
        resultat_exploitation == ResultatExploitation(ebe, dotations)
        resultat_courant      == ResultatCourant(resultat_exploitation,
                                                 produits_financiers, charges_financieres)
        resultat_net_sig      == ResultatNetSig(resultat_courant, impot)
    IN  <<marge_commerciale, valeur_ajoutee, ebe, resultat_exploitation,
          resultat_courant, resultat_net_sig>>

\* Keys of sig in insertion order.
SigKeys ==
    <<"Marge Commerciale", "Valeur Ajoutée", "EBE (Excédent Brut d'Exploitation)",
      "Résultat Exploitation", "Résultat Courant", "Résultat Net">>

\* sig_data['Solde'] of app.py
AppSigKeys ==
    <<"Marge Commerciale", "Valeur Ajoutée", "EBE",
      "Résultat Exploitation", "Résultat Courant", "Résultat Net">>

\* None.get raises AttributeError, caught: sig stays {}.
calculate_intermediate_balances(is) ==
    IF is = None THEN <<>>
    ELSE LET c == Cascade(is)
         IN  [i \in 1..Len(SigKeys) |-> <<SigKeys[i], c[i]>>]

show_income_statement(is) ==
    LET c == Cascade(is)
    IN  [i \in 1..Len(AppSigKeys) |-> <<AppSigKeys[i], c[i]>>]

(***************************************************************************)
(* Report assembly: the balance-sheet rows of generate_comprehensive_report *)
(* (man.py) and generate_excel_report (app.py).                            *)
(***************************************************************************)
\* Variant: only the items with a positive amount give a row, as in the loop
\* that feeds the pie chart.
FlattenBalanceSheet_PositiveOnly(bs, order) ==
    LET Positive(path) == bs[path[1]][path[2]][path[3]] > 0
        kept == SelectSeq(order, Positive)
    IN  [n \in 1..Len(kept) |->
            ("Catégorie" :> kept[n][1])
            @@ ("Sous-catégorie" :> kept[n][2])
            @@ ("Poste" :> kept[n][3])
            @@ ("Montant (€)" :> bs[kept[n][1]][kept[n][2]][kept[n][3]])]

\* for category, items in balance_sheet.items():
\*     for subcategory, values in items.items():
\*         for item, amount in values.items(): bilan_data.append({...})
\* `order` is the iteration order of the nested dict.
FlattenBalanceSheet(bs, order) ==
    [n \in 1..Len(order) |->
        ("Catégorie" :> order[n][1])
        @@ ("Sous-catégorie" :> order[n][2])
        @@ ("Poste" :> order[n][3])
        @@ ("Montant (€)" :> bs[order[n][1]][order[n][2]][order[n][3]])]

\* Variant: the field written by deleting the key and inserting it again,
\* which moves it behind the other items of its subsection.
OrderAfterAssignment_Reinserted(order, path) ==
    LET at == CHOOSE n \in DOMAIN order : order[n] = path
        last == CHOOSE n \in DOMAIN order :
                    /\ order[n][1] = path[1] /\ order[n][2] = path[2]
                    /\ \A m \in DOMAIN order :
                           (order[m][1] = path[1] /\ order[m][2] = path[2]) => m <= n
    IN  [n \in DOMAIN order |->
            IF n < at \/ n > last THEN order[n]
            ELSE IF n < last THEN order[n + 1]
            ELSE path]

\* balance_sheet[c][s][item] = value on a key the dict already has: the key
\* keeps its place in the iteration order.
OrderAfterAssignment(order, path) == order

(***************************************************************************)
(* Inputs: the statements a user reaches from the templates by editing at  *)
(* most MaxEdits form fields, and the worked scenarios.                    *)
(***************************************************************************)
\* One number_input: it assigns the field it is bound to.
ApplyEdit(pair, slot, v) ==
    IF slot[1] = "balance_sheet"
    THEN <<[pair[1] EXCEPT ![slot[2]][slot[3]][slot[4]] = v], pair[2]>>
    ELSE <<pair[1], [pair[2] EXCEPT ![slot[2]] = v]>>

RECURSIVE Edited(_, _)
Edited(slots, n) ==
    IF n = 0
    THEN {<<create_balance_sheet_template, create_income_statement_template>>}
    ELSE LET prev == Edited(slots, n - 1)
         IN  prev \cup {ApplyEdit(x, slot, v) : x \in prev, slot \in slots, v \in Amounts}

\* The fields the ratio engine reads one by one, and one field of every
\* subsection it only sums.
BalanceSheetSlots ==
    {<<"balance_sheet", "Actif", "Actif Immobilisé", "Immobilisations corporelles">>,
     <<"balance_sheet", "Actif", "Actif Circulant", "Stocks">>,
     <<"balance_sheet", "Actif", "Actif Circulant", "Créances clients">>,
     <<"balance_sheet", "Actif", "Actif Circulant", "Disponibilités (caisse et banque)">>,
     <<"balance_sheet", "Passif", "Capitaux Propres", "Capital social">>,
     <<"balance_sheet", "Passif", "Dettes", "Dettes financières (emprunts)">>,
     <<"balance_sheet", "Passif", "Dettes", "Dettes fournisseurs">>}

IncomeStatementSlots ==
    {<<"income_statement", k>> : k \in DOMAIN create_income_statement_template}

EngineSlots ==
    BalanceSheetSlots
    \cup {<<"income_statement", "Chiffre_affaires">>,
          <<"income_statement", "Variation_stocks">>,
          <<"income_statement", "Impots_taxes">>,
          <<"income_statement", "Autres_charges">>,
          <<"income_statement", "Produits_financiers">>}

\* Scenario A: current assets 60000, debt 50000.
ScenarioA_BS ==
    [create_balance_sheet_template EXCEPT
        !["Actif"]["Actif Circulant"]["Disponibilités (caisse et banque)"] = 60000,
        !["Passif"]["Dettes"]["Dettes financières (emprunts)"] = 50000]

\* Scenario B: the worked income statement.
ScenarioB_IS ==
    [create_income_statement_template EXCEPT
        !["Chiffre_affaires"] = 200000,
        !["Achats_marchandises"] = 80000,
        !["Variation_stocks"] = 5000,
        !["Autres_achats_charges_externes"] = 40000,
        !["Charges_personnel"] = 50000,
        !["Dotations_amortissements"] = 10000,
        !["Produits_financiers"] = 2000,
        !["Charges_financieres"] = 8000,
        !["Impot_benefices"] = 5000]

\* Scenario C: liquidity 0.8 in an otherwise healthy company.
ScenarioC_BS ==
    [create_balance_sheet_template EXCEPT
        !["Actif"]["Actif Immobilisé"]["Immobilisations corporelles"] = 60000,
        !["Actif"]["Actif Circulant"]["Stocks"] = 10000,
        !["Actif"]["Actif Circulant"]["Créances clients"] = 10000,
        !["Actif"]["Actif Circulant"]["Disponibilités (caisse et banque)"] = 20000,
        !["Passif"]["Capitaux Propres"]["Capital social"] = 50000,
        !["Passif"]["Dettes"]["Dettes financières (emprunts)"] = 30000,
        !["Passif"]["Dettes"]["Dettes fournisseurs"] = 20000]

ScenarioC_IS ==
    [create_income_statement_template EXCEPT
        !["Chiffre_affaires"] = 100000,
        !["Achats_marchandises"] = 60000,
        !["Charges_personnel"] = 20000]

ScenarioPairs ==
    {create_balance_sheet_template, ScenarioA_BS, ScenarioC_BS}
    \X {create_income_statement_template, ScenarioB_IS, ScenarioC_IS}

\* Statements whose ratios sit on the limits of the interpretation bands:
\* total assets 20 with debt 10, 14 or 15 (50 %, 70 %, 75 %; liquidity 1.4,
\* 1.0, 0.93) and a net result of 1, 2 or 3 (ROA 5 %, 10 %, 15 %).
ThresholdPairs ==
    {<<[create_balance_sheet_template EXCEPT
            !["Actif"]["Actif Immobilisé"]["Immobilisations corporelles"] = 6,
            !["Actif"]["Actif Circulant"]["Disponibilités (caisse et banque)"] = 14,
            !["Passif"]["Dettes"]["Dettes financières (emprunts)"] = debt],
       [create_income_statement_template EXCEPT !["Chiffre_affaires"] = ca]>> :
        debt \in {10, 14, 15}, ca \in {1, 2, 3}}

EngineInputs == Edited(EngineSlots, MaxEdits) \cup ScenarioPairs \cup ThresholdPairs

SigInputs ==
    {p[2] : p \in Edited(IncomeStatementSlots, MaxEdits)}
    \cup {ScenarioB_IS, ScenarioC_IS}

\* The engines called on what a caller may pass: nothing (None), an empty
\* dict, or a record from which an item, a subsection or a section is missing.
MaxInputEdits == 1

\* del d[k]
Without(d, k) == [x \in DOMAIN d \ {k} |-> d[x]]

WithoutSection(bs, c) == Without(bs, c)

WithoutSubsection(bs, c, s) == [bs EXCEPT ![c] = Without(bs[c], s)]

WithoutItem(bs, c, s, i) == [bs EXCEPT ![c][s] = Without(bs[c][s], i)]

IncompleteBalanceSheets(bs) ==
    {WithoutItem(bs, "Actif", "Actif Circulant", "Stocks"),
     WithoutItem(bs, "Actif", "Actif Circulant", "Créances clients"),
     WithoutItem(bs, "Passif", "Dettes", "Dettes fournisseurs"),
     WithoutSubsection(bs, "Actif", "Actif Immobilisé"),
     WithoutSubsection(bs, "Passif", "Dettes"),
     WithoutSubsection(bs, "Passif", "Capitaux Propres"),
     WithoutSection(bs, "Passif")}

IncompleteIncomeStatements(is) ==
    {Without(is, "Chiffre_affaires"), Without(is, "Produits_financiers")}

\* The fields whose items the incomplete records drop, and one field of the
\* fixed assets and of the charges.
InputSlots ==
    {<<"balance_sheet", "Actif", "Actif Immobilisé", "Immobilisations corporelles">>,
     <<"balance_sheet", "Actif", "Actif Circulant", "Stocks">>,
     <<"balance_sheet", "Actif", "Actif Circulant", "Créances clients">>,
     <<"balance_sheet", "Passif", "Dettes", "Dettes fournisseurs">>,
     <<"income_statement", "Chiffre_affaires">>,
     <<"income_statement", "Impots_taxes">>}

SuppliedInputs ==
    LET complete == Edited(InputSlots, MaxInputEdits) \cup ScenarioPairs
    IN  complete
        \cup UNION {{<<b, p[2]>> : b \in IncompleteBalanceSheets(p[1])} : p \in complete}
        \cup UNION {{<<p[1], i>> : i \in IncompleteIncomeStatements(p[2])} : p \in complete}
        \cup {<<b, p[2]>> : p \in complete, b \in {None, EmptyDict}}
        \cup {<<p[1], i>> : p \in complete, i \in {None, EmptyDict}}
        \cup ({None, EmptyDict} \X {None, EmptyDict})

\* The item paths a balance sheet iterates over, in order.
PathsOf(bs) ==
    IF ~Truthy(bs) THEN <<>>
    ELSE LET Present(path) ==
                 /\ path[1] \in DOMAIN bs
                 /\ path[2] \in DOMAIN bs[path[1]]
                 /\ path[3] \in DOMAIN bs[path[1]][path[2]]
         IN  SelectSeq(TemplateOrder, Present)

\* app3.py: the two sheets of an uploaded workbook: the demonstration data
\* with at most MaxEdits cells changed, or with a row missing.
App3Slots ==
    {<<"Bilan", p>> : p \in DOMAIN DemoBilan}
    \cup {<<"Résultat", "Chiffre d'affaires">>, <<"Résultat", "Résultat Net">>}

RECURSIVE EditedSheets(_)
EditedSheets(n) ==
    IF n = 0 THEN {<<DemoBilan, DemoResultat>>}
    ELSE LET prev == EditedSheets(n - 1)
         IN  prev \cup
             {IF slot[1] = "Bilan"
              THEN <<[x[1] EXCEPT ![slot[2]] = v], x[2]>>
              ELSE <<x[1], [x[2] EXCEPT ![slot[2]] = v]>> :
                  x \in prev, slot \in App3Slots, v \in Amounts}

App3Inputs ==
    EditedSheets(MaxEdits)
    \cup {<<Without(DemoBilan, "Dettes LT"), DemoResultat>>,
          <<DemoBilan, Without(DemoResultat, "Résultat Net")>>}

(***************************************************************************)
(* app.py: the recommendation tab of show_financial_analysis.              *)
(***************************************************************************)
\* liquidite = actif_circulant / passif_circulant if passif_circulant > 0 else 0
TabLiquidite(ac, pc) == IF pc > 0 THEN Div(ac, pc) ELSE Amount(0)

\* recommendations = [] ... if liquidite < 1: append(Haute) ...
\* if ca > 0 and total_actif > 0: if rotation_actif < 0.5: append(Moyenne)
AppRecommendations(bs, is) ==
    LET ac == SumValues(bs["Actif"]["Actif Circulant"])
        pc == SumValues(bs["Passif"]["Dettes"])
        liquidite == TabLiquidite(ac, pc)
        ta == SumOfSums(bs["Actif"])
        ca == Get(is, "Chiffre_affaires", 0)
        haute == IF RatLT(liquidite, Amount(1))
                 THEN <<("Priorité" :> "Haute")
                        @@ ("Recommandation" :> "Améliorer la liquidité : réduire le BFR, renégocier les délais fournisseurs")
                        @@ ("Impact" :> "Réduction du risque de défaut")>>
                 ELSE <<>>
        moyenne == IF ca > 0 /\ ta > 0 /\ RatLT(Div(ca, ta), <<1, 2>>)
                   THEN <<("Priorité" :> "Moyenne")
                          @@ ("Recommandation" :> "Améliorer la rotation des actifs : optimiser l'utilisation des immobilisations")
                          @@ ("Impact" :> "Augmentation de la rentabilité")>>
                   ELSE <<>>
    IN  haute \o moyenne

(***************************************************************************)
(* The balance-sheet assistant (show_balance_sheet of man.py and app.py)   *)
(* and the learning path of man.py.                                        *)
(***************************************************************************)
\* st.session_state.learning_path_completed as the session starts
LearningPathStart ==
    [bilan |-> FALSE, compte_resultat |-> FALSE, ratios |-> FALSE, budget |-> FALSE]

\* len(steps): the five steps of the assistant
NbSteps == 5

\* Variant: a new value for a template is the object the session already
\* holds (one module-level dict returned by every call).
CallTemplate_Shared(template, held) == held

\* create_balance_sheet_template() / create_income_statement_template(): the
\* dict display in the function body is evaluated at every call and gives a
\* new dict, whatever was done to the dicts returned earlier.
CallTemplate(template, held) == template

\* total_actif = total_actif_immobilise + total_actif_circulant
\* total_passif = total_capitaux_propres + total_dettes
\* difference = total_actif - total_passif
\* is_balanced = abs(difference) < 0.01
Verification(bs) ==
    LET total_actif_immobilise == SumValues(bs["Actif"]["Actif Immobilisé"])
        total_actif_circulant == SumValues(bs["Actif"]["Actif Circulant"])
        total_capitaux_propres == SumValues(bs["Passif"]["Capitaux Propres"])
        total_dettes == SumValues(bs["Passif"]["Dettes"])
        difference == (total_actif_immobilise + total_actif_circulant)
                      - (total_capitaux_propres + total_dettes)
    IN  [is_balanced |-> Abs(difference) * 100 < 1, difference |-> difference]

\* if is_balanced: if not learning_path_completed['bilan']: ... = True
MarkBilan(completed, bs) ==
    IF Verification(bs).is_balanced /\ ~completed.bilan
    THEN [completed EXCEPT !.bilan = TRUE]
    ELSE completed

\* if sig and 'Résultat Net' in sig: if not ...['compte_resultat']: ... = True
MarkCompteResultat(completed, is) ==
    LET s == calculate_intermediate_balances(is)
    IN  IF s # <<>> /\ (\E i \in 1..Len(s) : s[i][1] = "Résultat Net")
                    /\ ~completed.compte_resultat
        THEN [completed EXCEPT !.compte_resultat = TRUE]
        ELSE completed

\* The items edited in the runs of the assistant.
WizardSlots ==
    {<<"balance_sheet", "Actif", "Actif Immobilisé", "Immobilisations corporelles">>,
     <<"balance_sheet", "Passif", "Capitaux Propres", "Capital social">>,
     <<"balance_sheet", "Passif", "Dettes", "Dettes fournisseurs">>}

\* The items edited in the runs of the income-statement form.
WizardIncomeItems == {"Chiffre_affaires", "Achats_marchandises"}

(***************************************************************************)
(* The audit wizard of finguie_Pro.py.  The classes it imports from        *)
(* modules/ are modelled from the specification.                           *)
(***************************************************************************)
MaxAuditAmount == 2

\* data = {'balance_sheet': {...}, 'income_statement': {...}} built from the
\* number_input values when 'Valider les données saisies' is clicked
ManualData(ac, ai, cp, df, de, ca, achats, personnel, autres) ==
    [balance_sheet |->
        [actif_circulant |-> ac,
         actif_immobilise |-> ai,
         total_actif |-> ac + ai,
         capitaux_propres |-> cp,
         dettes_financieres |-> df,
         dettes_exploitation |-> de,
         total_passif |-> cp + df + de],
     income_statement |->
        [chiffre_affaires |-> ca,
         achats_consommes |-> achats,
         charges_personnel |-> personnel,
         autres_charges |-> autres,
         resultat_exploitation |-> ca - achats - personnel - autres]]

\* The data sets entered or uploaded: the current assets vary, the other
\* fields keep one value.
AuditData ==
    {ManualData(ac, 1, 1, 0, 1, 2, 1, 0, 0) : ac \in 0..MaxAuditAmount}

\* The uploaded files: a workbook holding a data set, or one the importer
\* cannot read.
AuditFiles ==
    {[readable |-> TRUE, sheets |-> data] : data \in AuditData}
    \cup {[readable |-> FALSE, sheets |-> None]}

\* FinancialDataImporter.import_excel raises on a file it cannot read.
ImportRaises(file) == ~file.readable

\* FinancialDataImporter.import_excel(file)
import_excel(file) == file.sheets

\* RatioAnalyzer(financial_data).calculate_all_ratios(): the liquidity ratio
\* CurrentAssets / Debt (infinite without debt) and the debt ratio
\* Debt / TotalAssets (absent without assets).
calculate_all_ratios(data) ==
    LET bs == data.balance_sheet
        dettes == bs.dettes_financieres + bs.dettes_exploitation
    IN  ("current_ratio" :> (IF dettes > 0 THEN Div(bs.actif_circulant, dettes) ELSE Inf))
        @@ (IF bs.total_actif > 0
            THEN "debt_ratio" :> Div(dettes, bs.total_actif)
            ELSE EmptyDict)

\* RiskDetector(financial_data, ratios).detect_all_risks(): the risks by
\* category; a liquidity ratio below 1 is critical, a debt ratio above 70 %
\* a warning.
detect_all_risks(data, rs) ==
    [critical |->
        IF "current_ratio" \in DOMAIN rs /\ RatLT(rs["current_ratio"], Amount(1))
        THEN <<[id |-> "liquidity", title |-> "Liquidité insuffisante"]>>
        ELSE <<>>,
     warning |->
        IF "debt_ratio" \in DOMAIN rs /\ RatGT(Times(rs["debt_ratio"], 100), Amount(70))
        THEN <<[id |-> "debt", title |-> "Endettement élevé"]>>
        ELSE <<>>,
     info |-> <<>>]

\* RecommendationEngine(financial_data, ratios, risks).generate_recommendations():
\* the recommendations by priority, one of high priority per critical risk
\* and one of medium priority per warning.
generate_recommendations(data, rs, rk) ==
    [high |-> [n \in 1..Len(rk.critical) |->
                  [id |-> rk.critical[n].id, title |-> "Améliorer la liquidité"]],
     medium |-> [n \in 1..Len(rk.warning) |->
                  [id |-> rk.warning[n].id, title |-> "Réduire l'endettement"]],
     low |-> <<>>]

\* WhatIfSimulator(financial_data).run_pessimistic_scenario(): a comparison
\* of the revenue of the data with the revenue of the scenario.
run_pessimistic_scenario(data) ==
    [comparison |-> <<data.income_statement.chiffre_affaires,
                      data.income_statement.chiffre_affaires - 1>>]

(***************************************************************************)
(* State machine.                                                          *)
(***************************************************************************)
NoResults ==
    /\ ratios = EmptyDict
    /\ interpretations = EmptyDict
    /\ app_ratios = EmptyDict
    /\ app_recommendations = <<>>
    /\ sig = <<>>
    /\ app_sig = <<>>
    /\ called = {}
    /\ raised = {}
    /\ edits = 0
    /\ bilan_data = <<>>
    /\ app3_ratios = None
    /\ current_step = 0
    /\ learning_path_completed = LearningPathStart
    /\ equilibre = None
    /\ financial_data = None
    /\ audit_ratios = None
    /\ risks = None
    /\ recommendations = None
    /\ whatif_scenarios = None
    /\ audit_step = 1
    /\ consumer_args = None

\* The balance engine and the ratio engines applied to one income statement,
\* next to a balance sheet with assets, so that the ratios show the net result.
InitNet ==
    /\ balance_sheet =
           [create_balance_sheet_template
               EXCEPT !["Actif"]["Actif Immobilisé"]["Immobilisations corporelles"] = 1]
    /\ income_statement \in SigInputs
    /\ key_order = TemplateOrder
    /\ bilan_df = DemoBilan
    /\ resultat_df = DemoResultat
    /\ NoResults

\* The ratio engines applied to a balance sheet and an income statement.
Init ==
    /\ \E p \in EngineInputs :
           /\ balance_sheet = p[1]
           /\ income_statement = p[2]
    /\ key_order = TemplateOrder
    /\ bilan_df = DemoBilan
    /\ resultat_df = DemoResultat
    /\ NoResults

\* The balance engines applied to an income statement.
InitSIG ==
    /\ balance_sheet = create_balance_sheet_template
    /\ income_statement \in SigInputs
    /\ key_order = TemplateOrder
    /\ bilan_df = DemoBilan
    /\ resultat_df = DemoResultat
    /\ NoResults

\* man.py: ratios, interpretations = calculate_comprehensive_ratios(...)
CalculateComprehensiveRatios ==
    LET res == calculate_comprehensive_ratios(balance_sheet, income_statement)
    IN  /\ ratios' = res.ratios
        /\ interpretations' = res.interpretations
        /\ called' = called \cup {"calculate_comprehensive_ratios"}
        /\ UNCHANGED <<balance_sheet, income_statement, app_ratios, app_recommendations, sig, app_sig>>
        /\ UNCHANGED <<raised, session_vars, app3_vars, wizard_vars, audit_vars>>

\* app.py: ratios = calculate_ratios(...)
CalculateRatios ==
    /\ app_ratios' = calculate_ratios(balance_sheet, income_statement)
    /\ called' = called \cup {"calculate_ratios"}
    /\ UNCHANGED app_recommendations
    /\ UNCHANGED <<balance_sheet, income_statement, ratios, interpretations,
                   sig, app_sig>>
    /\ UNCHANGED <<raised, session_vars, app3_vars, wizard_vars, audit_vars>>

\* Variant: the reads done with setdefault, which writes the defaults back
\* into the caller's income statement.
CalculateIntermediateBalances_FillingDefaults ==
    /\ sig' = calculate_intermediate_balances(income_statement)
    /\ income_statement' =
           IF income_statement = None THEN None
           ELSE [k \in DOMAIN income_statement \cup {"Chiffre_affaires"} |->
                    Get(income_statement, k, 0)]
    /\ called' = called \cup {"calculate_intermediate_balances"}
    /\ UNCHANGED <<balance_sheet, ratios, interpretations, app_ratios, app_recommendations, app_sig>>
    /\ UNCHANGED <<raised, session_vars, app3_vars, wizard_vars, audit_vars>>

\* man.py: sig = calculate_intermediate_balances(income_statement)
CalculateIntermediateBalances ==
    /\ sig' = calculate_intermediate_balances(income_statement)
    /\ called' = called \cup {"calculate_intermediate_balances"}
    /\ UNCHANGED <<balance_sheet, income_statement, ratios, interpretations,
                   app_ratios, app_recommendations, app_sig>>
    /\ UNCHANGED <<raised, session_vars, app3_vars, wizard_vars, audit_vars>>

\* app.py: the SIG table of show_income_statement
ShowIncomeStatement ==
    /\ app_sig' = show_income_statement(income_statement)
    /\ called' = called \cup {"show_income_statement"}
    /\ UNCHANGED <<balance_sheet, income_statement, ratios, interpretations,
                   app_ratios, app_recommendations, sig>>
    /\ UNCHANGED <<raised, session_vars, app3_vars, wizard_vars, audit_vars>>

\* The engines applied to whatever the caller supplies.
InitInputs ==
    /\ \E p \in SuppliedInputs :
           /\ balance_sheet = p[1]
           /\ income_statement = p[2]
           /\ key_order = PathsOf(p[1])
    /\ bilan_df = DemoBilan
    /\ resultat_df = DemoResultat
    /\ NoResults

\* The three variants of the ratio computation side by side.
InitApp3 ==
    /\ \E s \in App3Inputs :
           /\ bilan_df = s[1]
           /\ resultat_df = s[2]
    /\ \E p \in {<<create_balance_sheet_template, create_income_statement_template>>,
                  <<ScenarioC_BS, ScenarioC_IS>>} :
           /\ balance_sheet = p[1]
           /\ income_statement = p[2]
    /\ key_order = TemplateOrder
    /\ NoResults

\* app3.py: ratios, actif_total, passif_total = calculate_ratios(bilan_df, resultat_df)
\* at module level, outside any try block.
CalculateRatiosApp3 ==
    /\ IF App3RaisesIndexError(bilan_df, resultat_df)
       THEN /\ raised' = raised \cup {"app3.calculate_ratios"}
            /\ UNCHANGED <<app3_ratios, called>>
       ELSE /\ app3_ratios' = app3_calculate_ratios(bilan_df, resultat_df)
            /\ called' = called \cup {"app3.calculate_ratios"}
            /\ UNCHANGED raised
    /\ UNCHANGED <<balance_sheet, income_statement, ratios, interpretations,
                   app_ratios, app_recommendations, sig, app_sig, session_vars, bilan_df, resultat_df,
                   wizard_vars, audit_vars>>

\* The session as main() leaves it: both templates installed.
InitSession ==
    /\ balance_sheet = create_balance_sheet_template
    /\ income_statement = create_income_statement_template
    /\ key_order = TemplateOrder
    /\ bilan_df = DemoBilan
    /\ resultat_df = DemoResultat
    /\ NoResults

\* The locals of the last export do not survive the rerun of the script.
DiscardReport ==
    /\ ratios' = EmptyDict
    /\ interpretations' = EmptyDict
    /\ sig' = <<>>
    /\ bilan_data' = <<>>
    /\ called' = {}

\* What a run of show_balance_sheet on the balance sheet bs shows and
\* records below the form: the totals, the status and, in man.py, the flag
\* of the learning path.
VerifyBalance(bs) ==
    /\ equilibre' = Verification(bs)
    /\ learning_path_completed' = MarkBilan(learning_path_completed, bs)

\* Variant: an assignment that would unbalance the sheet is dropped.
EditItem_KeepingBalance(slot, v) ==
    LET edited == [balance_sheet EXCEPT ![slot[2]][slot[3]][slot[4]] = v]
        kept == IF Verification(edited).is_balanced THEN edited ELSE balance_sheet
    IN  /\ edits < MaxEdits
        /\ balance_sheet' = kept
        /\ key_order' =
               OrderAfterAssignment(key_order, <<slot[2], slot[3], slot[4]>>)
        /\ edits' = edits + 1
        /\ VerifyBalance(kept)
        /\ DiscardReport
        /\ UNCHANGED <<income_statement, app_ratios, app_recommendations, app_sig, raised, app3_vars,
                       current_step, audit_vars>>

\* The balance-sheet form: the user changes one number_input, the loop
\* assigns the value to the item it iterates over, and the run goes on to
\* the verification of the balance.
EditItem(slot, v) ==
    /\ edits < MaxEdits
    /\ balance_sheet' =
           [balance_sheet EXCEPT ![slot[2]][slot[3]][slot[4]] = v]
    /\ key_order' =
           OrderAfterAssignment(key_order, <<slot[2], slot[3], slot[4]>>)
    /\ edits' = edits + 1
    /\ VerifyBalance(balance_sheet')
    /\ DiscardReport
    /\ UNCHANGED <<income_statement, app_ratios, app_recommendations, app_sig, raised, app3_vars,
                   current_step, audit_vars>>

EditBalanceSheet ==
    \E slot \in BalanceSheetSlots, v \in Amounts : EditItem(slot, v)

\* The reset buttons ('Réinitialiser les données', 'Réinitialiser
\* l'exercice', 'Données d'exercice', 'Supprimer les données'): both
\* templates are installed again and the assistant goes back to its first
\* step; the page is drawn again from the top.
ResetData ==
    /\ balance_sheet' = CallTemplate(create_balance_sheet_template, balance_sheet)
    /\ income_statement' =
           CallTemplate(create_income_statement_template, income_statement)
    /\ current_step' = 0
    /\ key_order' = TemplateOrder
    /\ edits' = 0
    /\ equilibre' = None
    /\ DiscardReport
    /\ UNCHANGED <<app_ratios, app_recommendations, app_sig, raised, app3_vars,
                   learning_path_completed, audit_vars>>

\* The export button: ratios and balances are computed and the report is
\* assembled; bilan_data is the list behind the 'Bilan Comptable' sheet.
ExportReport ==
    LET res == calculate_comprehensive_ratios(balance_sheet, income_statement)
    IN  /\ ratios' = res.ratios
        /\ interpretations' = res.interpretations
        /\ sig' = calculate_intermediate_balances(income_statement)
        /\ bilan_data' = FlattenBalanceSheet(balance_sheet, key_order)
        /\ called' = called \cup {"calculate_comprehensive_ratios",
                                  "calculate_intermediate_balances",
                                  "generate_comprehensive_report"}
        /\ UNCHANGED <<balance_sheet, income_statement, key_order, edits,
                       app_ratios, app_recommendations, app_sig, raised, app3_vars,
                       wizard_vars, audit_vars>>

\* The assistant with the edits of a run drawn from WizardSlots.
EditAssistant ==
    \E slot \in WizardSlots, v \in Amounts : EditItem(slot, v)

\* What every run of the script leaves alone when the form is not touched:
\* each number_input returns the amount it was given as its value.
FormUntouched ==
    /\ DiscardReport
    /\ UNCHANGED <<balance_sheet, income_statement, key_order, edits,
                   app_ratios, app_recommendations, app_sig, raised, app3_vars, audit_vars>>

\* current_step = st.selectbox(..., steps, index=current_step)
\* st.session_state.current_step = steps.index(current_step)
SelectStep ==
    /\ \E k \in 0..(NbSteps - 1) : current_step' = k
    /\ VerifyBalance(balance_sheet)
    /\ FormUntouched

\* Variant: the step decremented without the test on 0.
PreviousStep_Unguarded ==
    /\ current_step' = current_step - 1
    /\ VerifyBalance(balance_sheet)
    /\ FormUntouched

\* if st.button("Étape précédente"): if current_step > 0: current_step -= 1
PreviousStep ==
    /\ current_step' = IF current_step > 0 THEN current_step - 1 ELSE current_step
    /\ VerifyBalance(balance_sheet)
    /\ FormUntouched

\* if st.button("Étape suivante"): if current_step < len(steps) - 1: current_step += 1
NextStep ==
    /\ current_step' =
           IF current_step < NbSteps - 1 THEN current_step + 1 ELSE current_step
    /\ VerifyBalance(balance_sheet)
    /\ FormUntouched

\* show_income_statement: the user changes one number_input and the
\* assignment stores it; man.py then computes the balances and marks the
\* module as completed.
EditIncomeStatement ==
    /\ edits < MaxEdits
    /\ \E k \in WizardIncomeItems, v \in Amounts :
           income_statement' = [income_statement EXCEPT ![k] = v]
    /\ edits' = edits + 1
    /\ learning_path_completed' =
           MarkCompteResultat(learning_path_completed, income_statement')
    /\ DiscardReport
    /\ UNCHANGED <<balance_sheet, key_order, current_step, equilibre,
                   app_ratios, app_recommendations, app_sig, raised, app3_vars, audit_vars>>

\* man.py, show_income_statement with the form untouched: the balances are
\* computed and the module is marked as completed.
CompleteIncomeStatement ==
    /\ learning_path_completed' =
           MarkCompteResultat(learning_path_completed, income_statement)
    /\ UNCHANGED <<current_step, equilibre>>
    /\ FormUntouched

\* man.py, show_financial_analysis: 'Marquer ce Module comme Complété'
MarkRatiosCompleted ==
    /\ learning_path_completed' = [learning_path_completed EXCEPT !.ratios = TRUE]
    /\ UNCHANGED <<current_step, equilibre>>
    /\ FormUntouched

\* man.py, show_budgeting: 'Marquer ce Module comme Complété'
MarkBudgetCompleted ==
    /\ learning_path_completed' = [learning_path_completed EXCEPT !.budget = TRUE]
    /\ UNCHANGED <<current_step, equilibre>>
    /\ FormUntouched

\* man.py, show_settings: type_reset == "Progression apprentissage"
ResetProgression ==
    /\ learning_path_completed' = LearningPathStart
    /\ UNCHANGED <<current_step, equilibre>>
    /\ FormUntouched

\* man.py, show_settings: type_reset == "Tout (usine)": every key of the
\* session is deleted and the rerun initialises the session again.
FactoryReset ==
    /\ balance_sheet' = create_balance_sheet_template
    /\ income_statement' = create_income_statement_template
    /\ current_step' = 0
    /\ learning_path_completed' = LearningPathStart
    /\ key_order' = TemplateOrder
    /\ edits' = 0
    /\ equilibre' = None
    /\ DiscardReport
    /\ UNCHANGED <<app_ratios, app_recommendations, app_sig, raised, app3_vars, audit_vars>>

\* app.py, show_financial_analysis: the ratios are computed from the session
\* and the fourth tab builds its recommendations from the same statements.
ShowFinancialAnalysis ==
    /\ app_ratios' = calculate_ratios(balance_sheet, income_statement)
    /\ app_recommendations' = AppRecommendations(balance_sheet, income_statement)
    /\ called' = called \cup {"calculate_ratios", "show_financial_analysis"}
    /\ UNCHANGED <<balance_sheet, income_statement, ratios, interpretations,
                   sig, app_sig>>
    /\ UNCHANGED <<raised, session_vars, app3_vars, wizard_vars, audit_vars>>

\* What the audit wizard leaves alone: the sessions of the other programs.
AuditFrame ==
    UNCHANGED <<balance_sheet, income_statement, ratios, interpretations,
                app_ratios, app_recommendations, sig, app_sig, called, raised, session_vars,
                app3_vars, wizard_vars>>

\* Step 1: the company form.
step_company_info ==
    /\ audit_step' = 1
    /\ UNCHANGED <<financial_data, audit_ratios, risks, recommendations,
                   whatif_scenarios, consumer_args>>
    /\ AuditFrame

\* Step 2: the manual form and its 'Valider' button, or a file given to the
\* uploader, or neither.
step_data_import ==
    /\ audit_step' = 2
    /\ \/ UNCHANGED financial_data
       \/ \E data \in AuditData : financial_data' = data
       \/ \E uploaded_file \in AuditFiles :
              financial_data' = IF ImportRaises(uploaded_file)
                                THEN financial_data
                                ELSE import_excel(uploaded_file)
    /\ UNCHANGED <<audit_ratios, risks, recommendations, whatif_scenarios,
                   consumer_args>>
    /\ AuditFrame

\* Step 3: if not financial_data: return; otherwise the ratios are computed
\* and stored.
step_ratio_analysis ==
    /\ audit_step' = 3
    /\ IF ~Truthy(financial_data)
       THEN UNCHANGED audit_ratios
       ELSE audit_ratios' = calculate_all_ratios(financial_data)
    /\ UNCHANGED <<financial_data, risks, recommendations, whatif_scenarios,
                   consumer_args>>
    /\ AuditFrame

\* Variant: the detector run without the test of its prerequisites.
step_risk_detection_Unguarded ==
    /\ audit_step' = 4
    /\ risks' = detect_all_risks(financial_data,
                                 IF audit_ratios = None THEN EmptyDict ELSE audit_ratios)
    /\ consumer_args' = [consumer |-> "RiskDetector",
                         financial_data |-> financial_data,
                         ratios |-> audit_ratios]
    /\ UNCHANGED <<financial_data, audit_ratios, recommendations, whatif_scenarios>>
    /\ AuditFrame

\* Step 4: if not financial_data or not ratios: return; otherwise the
\* detector is given the data and the stored ratios, and the risks are stored.
step_risk_detection ==
    /\ audit_step' = 4
    /\ IF ~Truthy(financial_data) \/ ~Truthy(audit_ratios)
       THEN UNCHANGED <<risks, consumer_args>>
       ELSE /\ risks' = detect_all_risks(financial_data, audit_ratios)
            /\ consumer_args' = [consumer |-> "RiskDetector",
                                 financial_data |-> financial_data,
                                 ratios |-> audit_ratios]
    /\ UNCHANGED <<financial_data, audit_ratios, recommendations, whatif_scenarios>>
    /\ AuditFrame

\* Step 5: if not risks: return; otherwise the engine is given the data, the
\* stored ratios and the risks, and the recommendations are stored.
step_recommendations ==
    /\ audit_step' = 5
    /\ IF ~Truthy(risks)
       THEN UNCHANGED <<recommendations, consumer_args>>
       ELSE /\ recommendations' =
                   generate_recommendations(financial_data, audit_ratios, risks)
            /\ consumer_args' = [consumer |-> "RecommendationEngine",
                                 financial_data |-> financial_data,
                                 ratios |-> audit_ratios]
    /\ UNCHANGED <<financial_data, audit_ratios, risks, whatif_scenarios>>
    /\ AuditFrame

\* Step 6: if not financial_data: return; otherwise a scenario button may
\* store its result.
step_whatif_simulator ==
    /\ audit_step' = 6
    /\ IF ~Truthy(financial_data)
       THEN UNCHANGED whatif_scenarios
       ELSE \/ UNCHANGED whatif_scenarios
            \/ whatif_scenarios' = run_pessimistic_scenario(financial_data)
    /\ UNCHANGED <<financial_data, audit_ratios, risks, recommendations,
                   consumer_args>>
    /\ AuditFrame

\* Step 7: if not financial_data: return; otherwise the charts are drawn,
\* among them create_ratio_trend_chart(st.session_state.ratios).
step_visualizations ==
    /\ audit_step' = 7
    /\ IF ~Truthy(financial_data)
       THEN UNCHANGED consumer_args
       ELSE consumer_args' = [consumer |-> "FinancialVisualizer",
                              financial_data |-> financial_data,
                              ratios |-> audit_ratios]
    /\ UNCHANGED <<financial_data, audit_ratios, risks, recommendations,
                   whatif_scenarios>>
    /\ AuditFrame

\* Step 8: the internal-control checklist.
step_internal_control ==
    /\ audit_step' = 8
    /\ UNCHANGED <<financial_data, audit_ratios, risks, recommendations,
                   whatif_scenarios, consumer_args>>
    /\ AuditFrame

\* Step 9: if not all([financial_data, ratios, risks]): return; otherwise
\* the report generator is built from the session.
step_final_report ==
    /\ audit_step' = 9
    /\ IF ~(Truthy(financial_data) /\ Truthy(audit_ratios) /\ Truthy(risks))
       THEN UNCHANGED consumer_args
       ELSE consumer_args' = [consumer |-> "ReportGenerator",
                              financial_data |-> financial_data,
                              ratios |-> audit_ratios]
    /\ UNCHANGED <<financial_data, audit_ratios, risks, recommendations,
                   whatif_scenarios>>
    /\ AuditFrame

Next == CalculateRatios \/ CalculateComprehensiveRatios

NextNet ==
    CalculateIntermediateBalances \/ CalculateComprehensiveRatios \/ CalculateRatios

NextAnalysis == ShowFinancialAnalysis \/ CalculateComprehensiveRatios

NextAudit ==
    \/ step_company_info
    \/ step_data_import
    \/ step_ratio_analysis
    \/ step_risk_detection
    \/ step_recommendations
    \/ step_whatif_simulator
    \/ step_visualizations
    \/ step_internal_control
    \/ step_final_report

NextSession == EditBalanceSheet \/ ResetData \/ ExportReport

NextApp3 == CalculateRatiosApp3 \/ CalculateComprehensiveRatios \/ CalculateRatios

NextInputs ==
    CalculateComprehensiveRatios \/ CalculateRatios \/ CalculateIntermediateBalances

NextSIG == CalculateIntermediateBalances \/ ShowIncomeStatement

NextWizard ==
    \/ EditAssistant
    \/ EditIncomeStatement
    \/ SelectStep
    \/ PreviousStep
    \/ NextStep
    \/ ResetData
    \/ CompleteIncomeStatement
    \/ MarkRatiosCompleted
    \/ MarkBudgetCompleted
    \/ ResetProgression
    \/ FactoryReset

Spec == Init /\ [][Next]_vars

SpecSIG == InitSIG /\ [][NextSIG]_vars

SpecInputs == InitInputs /\ [][NextInputs]_vars

SpecApp3 == InitApp3 /\ [][NextApp3]_vars

SpecSession == InitSession /\ [][NextSession]_vars

SpecWizard == InitSession /\ [][NextWizard]_vars

SpecAudit == InitSession /\ [][NextAudit]_vars

SpecAnalysis == Init /\ [][NextAnalysis]_vars

SpecNet == InitNet /\ [][NextNet]_vars

(***************************************************************************)
(* Vocabulary of the properties: the quantities of the specification,      *)
(* written out item by item on the current statements.                     *)
(***************************************************************************)
FixedAssets ==
    balance_sheet["Actif"]["Actif Immobilisé"]["Immobilisations incorporelles"]
    + balance_sheet["Actif"]["Actif Immobilisé"]["Immobilisations corporelles"]
    + balance_sheet["Actif"]["Actif Immobilisé"]["Immobilisations financières"]

CurrentAssets ==
    balance_sheet["Actif"]["Actif Circulant"]["Stocks"]
    + balance_sheet["Actif"]["Actif Circulant"]["Créances clients"]
    + balance_sheet["Actif"]["Actif Circulant"]["Disponibilités (caisse et banque)"]
    + balance_sheet["Actif"]["Actif Circulant"]["Autres actifs circulants"]

Equity ==
    balance_sheet["Passif"]["Capitaux Propres"]["Capital social"]
    + balance_sheet["Passif"]["Capitaux Propres"]["Réserves"]
    + balance_sheet["Passif"]["Capitaux Propres"]["Résultat de l'exercice"]

Debt ==
    balance_sheet["Passif"]["Dettes"]["Dettes financières (emprunts)"]
    + balance_sheet["Passif"]["Dettes"]["Dettes fournisseurs"]
    + balance_sheet["Passif"]["Dettes"]["Autres dettes (fiscales, sociales)"]

TotalAssets == FixedAssets + CurrentAssets

Revenue == income_statement["Chiffre_affaires"]
PurchasesOfGoods == income_statement["Achats_marchandises"]
InventoryVariation == income_statement["Variation_stocks"]
OtherExternalExpenses == income_statement["Autres_achats_charges_externes"]
TaxesAndDuties == income_statement["Impots_taxes"]
PersonnelExpenses == income_statement["Charges_personnel"]
DepreciationExpense == income_statement["Dotations_amortissements"]
OtherExpenses == income_statement["Autres_charges"]
FinancialIncome == income_statement["Produits_financiers"]
FinancialExpenses == income_statement["Charges_financieres"]
IncomeTaxExpense == income_statement["Impot_benefices"]

\* NetResult of the ratio engine: Revenue minus every item other than
\* Revenue and FinancialIncome.
NetResult ==
    Revenue - (PurchasesOfGoods + InventoryVariation + OtherExternalExpenses
               + TaxesAndDuties + PersonnelExpenses + DepreciationExpense
               + OtherExpenses + FinancialExpenses + IncomeTaxExpense)

ManCalled == "calculate_comprehensive_ratios" \in called
AppCalled == "calculate_ratios" \in called
SigCalled == "calculate_intermediate_balances" \in called
AppSigCalled == "show_income_statement" \in called

IsInf(r) == r[2] = 0
IsFinite(r) == r[2] > 0
Has(d, k) == k \in DOMAIN d

(***************************************************************************)
(* C1  Liquidity ratio.                                                    *)
(***************************************************************************)
\* C1 as stated: in both engines the liquidity ratio is CurrentAssets / Debt
\* for every non-zero Debt, and +infinity exactly when Debt = 0.
C1_AsStated ==
    /\ ManCalled =>
         /\ Debt # 0 => RatEq(ratios["Ratio de Liquidité"], <<CurrentAssets, Debt>>)
         /\ IsInf(ratios["Ratio de Liquidité"]) <=> Debt = 0
    /\ AppCalled =>
         /\ Debt # 0 => RatEq(app_ratios["Ratio_de_Liquidite"], <<CurrentAssets, Debt>>)
         /\ IsInf(app_ratios["Ratio_de_Liquidite"]) <=> Debt = 0

\* C1 amended: in both engines the liquidity ratio is CurrentAssets / Debt for
\* every Debt > 0 and +infinity exactly when Debt <= 0; CurrentAssets = 60000
\* with Debt = 50000 gives 1.2 and the all-zero template gives +infinity.
C1_LiquidityRatio ==
    /\ ManCalled =>
         /\ Has(ratios, "Ratio de Liquidité")
         /\ Debt > 0 =>
              /\ IsFinite(ratios["Ratio de Liquidité"])
              /\ RatEq(ratios["Ratio de Liquidité"], <<CurrentAssets, Debt>>)
         /\ IsInf(ratios["Ratio de Liquidité"]) <=> Debt <= 0
         /\ (CurrentAssets = 60000 /\ Debt = 50000) =>
              RatEq(ratios["Ratio de Liquidité"], <<12, 10>>)
         /\ balance_sheet = create_balance_sheet_template =>
              ratios["Ratio de Liquidité"] = Inf
    /\ AppCalled =>
         /\ Has(app_ratios, "Ratio_de_Liquidite")
         /\ Debt > 0 =>
              /\ IsFinite(app_ratios["Ratio_de_Liquidite"])
              /\ RatEq(app_ratios["Ratio_de_Liquidite"], <<CurrentAssets, Debt>>)
         /\ IsInf(app_ratios["Ratio_de_Liquidite"]) <=> Debt <= 0
         /\ (CurrentAssets = 60000 /\ Debt = 50000) =>
              RatEq(app_ratios["Ratio_de_Liquidite"], <<12, 10>>)
         /\ balance_sheet = create_balance_sheet_template =>
              app_ratios["Ratio_de_Liquidite"] = Inf

\* Scenario A has gone through both engines.
C1_Witness ==
    /\ ManCalled /\ AppCalled
    /\ CurrentAssets = 60000 /\ Debt = 50000
    /\ RatEq(ratios["Ratio de Liquidité"], <<6, 5>>)
    /\ RatEq(app_ratios["Ratio_de_Liquidite"], <<6, 5>>)

(***************************************************************************)
(* C2  Ratios over TotalAssets.                                            *)
(***************************************************************************)
TotalAssetsKeys == {"Taux d'endettement", "ROA (%)", "Rotation des actifs"}

\* C2 as stated: Debt Ratio, ROA and Asset Turnover are absent exactly when
\* TotalAssets = 0, and present with their values for every other TotalAssets.
C2_AsStated ==
    /\ ManCalled =>
         /\ TotalAssets = 0 => TotalAssetsKeys \cap DOMAIN ratios = {}
         /\ TotalAssets # 0 => TotalAssetsKeys \subseteq DOMAIN ratios
    /\ AppCalled => (Has(app_ratios, "ROA") <=> TotalAssets # 0)

\* C2 amended: the three keys are absent exactly when TotalAssets <= 0 (never
\* present as 0 or infinity), and for every TotalAssets > 0 all three are
\* present with the values Debt/TotalAssets*100, NetResult/TotalAssets*100 and
\* Revenue/TotalAssets (app.py's engine computes ROA only, under the same rule).
C2_TotalAssetsRatios ==
    /\ ManCalled =>
         /\ TotalAssets <= 0 => TotalAssetsKeys \cap DOMAIN ratios = {}
         /\ TotalAssets > 0 =>
              /\ TotalAssetsKeys \subseteq DOMAIN ratios
              /\ \A k \in TotalAssetsKeys : IsFinite(ratios[k])
              /\ RatEq(ratios["Taux d'endettement"], <<Debt * 100, TotalAssets>>)
              /\ RatEq(ratios["ROA (%)"], <<NetResult * 100, TotalAssets>>)
              /\ RatEq(ratios["Rotation des actifs"], <<Revenue, TotalAssets>>)
    /\ AppCalled =>
         /\ TotalAssets <= 0 => ~Has(app_ratios, "ROA")
         /\ TotalAssets > 0 =>
              /\ Has(app_ratios, "ROA")
              /\ IsFinite(app_ratios["ROA"])
              /\ RatEq(app_ratios["ROA"], <<NetResult * 100, TotalAssets>>)

\* Scenario D: TotalAssets = 0 with a non-zero net result, ROA absent.
C2_Witness ==
    /\ ManCalled /\ AppCalled
    /\ TotalAssets = 0 /\ NetResult # 0
    /\ ~Has(ratios, "ROA (%)") /\ ~Has(app_ratios, "ROA")

(***************************************************************************)
(* C3  Working capital.                                                    *)
(***************************************************************************)
\* C3 as stated: for every balance sheet, also with zero or negative debt,
\* both engines return Working Capital = CurrentAssets - Debt, hence the same
\* value.
C3_WorkingCapital ==
    (ManCalled /\ AppCalled) =>
        /\ ratios["Fond de Roulement (FR)"] = Amount(CurrentAssets - Debt)
        /\ app_ratios["Fond_de_Roulement"] = Amount(CurrentAssets - Debt)
        /\ app_ratios["Fond_de_Roulement"] = ratios["Fond de Roulement (FR)"]

CascadeHolds(t) ==
    /\ t[2][2] = t[1][2] - OtherExternalExpenses
    /\ t[3][2] = t[2][2] - PersonnelExpenses
    /\ t[4][2] = t[3][2] - DepreciationExpense
    /\ t[5][2] = t[4][2] + FinancialIncome - FinancialExpenses
    /\ t[6][2] = t[5][2] - IncomeTaxExpense

Values(t) == [i \in DOMAIN t |-> t[i][2]]
Names(t) == [i \in DOMAIN t |-> t[i][1]]

LiquidityRule ==
    Has(ratios, "Ratio de Liquidité") /\ RatLT(ratios["Ratio de Liquidité"], Amount(1))
TurnoverRule ==
    Has(ratios, "Rotation des actifs") /\ RatLT(ratios["Rotation des actifs"], <<1, 2>>)
DebtRule ==
    Has(ratios, "Taux d'endettement") /\ RatGT(ratios["Taux d'endettement"], Amount(70))
RoaRule ==
    Has(ratios, "ROA (%)") /\ RatLT(ratios["ROA (%)"], Amount(5))

Headline(rec) == <<rec.titre, rec.priorite>>

ExpectedHeadlines ==
    (IF LiquidityRule THEN <<<<"Améliorer la liquidité", "Haute">>>> ELSE <<>>)
    \o (IF TurnoverRule THEN <<<<"Optimiser la rotation des actifs", "Moyenne">>>> ELSE <<>>)
    \o (IF DebtRule THEN <<<<"Réduire l'endettement", "Haute">>>> ELSE <<>>)
    \o (IF RoaRule THEN <<<<"Améliorer la rentabilité", "Moyenne">>>> ELSE <<>>)

Recs == interpretations["Recommandations"]

\* C7 as stated: the recommendation list is exactly the subsequence of
\* [Improve liquidity (High), Optimize asset rotation (Medium), Reduce
\* indebtedness (High), Improve profitability (Medium)] made of the rules whose
\* condition holds on the RatioSet; it is empty when no rule holds, and a
\* liquidity ratio of 0.8 alone yields one High 'Improve liquidity' entry with
\* 3 actions.
C7_Recommendations ==
    ManCalled =>
        /\ Has(interpretations, "Recommandations")
        /\ [i \in DOMAIN Recs |-> Headline(Recs[i])] = ExpectedHeadlines
        /\ (LiquidityRule /\ ~TurnoverRule /\ ~DebtRule /\ ~RoaRule) =>
             /\ Len(Recs) = 1
             /\ Len(Recs[1].actions) = 3

\* C7 restricted to sheets with TotalAssets > 0, where asset turnover, debt
\* ratio and ROA are all in the RatioSet: there the list is the subsequence.
C7_WithTotalAssets == TotalAssets > 0 => C7_Recommendations

(***************************************************************************)
(* C8  Absent ratios.                                                      *)
(***************************************************************************)
\* C8 as stated: with TotalAssets = 0 (ROA, debt ratio and asset turnover
\* omitted) the rules 'asset turnover < 0.5' and 'ROA < 5' do not fire and no
\* profitability or solvency band is assigned from a substituted 0.
C8_AbsentNotZero ==
    (ManCalled /\ TotalAssets = 0) =>
        /\ TotalAssetsKeys \cap DOMAIN ratios = {}
        /\ \A i \in DOMAIN Recs :
               Recs[i].titre \notin {"Optimiser la rotation des actifs",
                                     "Améliorer la rentabilité"}
        /\ ~Has(interpretations, "Rentabilité")
        /\ ~Has(interpretations, "Solvabilité")

(***************************************************************************)
(* C9  ROE.                                                                *)
(***************************************************************************)
\* C9: ROE is in the RatioSet exactly when Equity > 0, and then equals
\* NetResult / Equity * 100; for Equity <= 0 the key is absent.
C9_ROE ==
    ManCalled =>
        /\ Has(ratios, "ROE (%)") <=> Equity > 0
        /\ Equity > 0 =>
             /\ IsFinite(ratios["ROE (%)"])
             /\ RatEq(ratios["ROE (%)"], <<NetResult * 100, Equity>>)

\* Positive equity and a non-zero net result: ROE is there and non-zero.
C9_Witness ==
    /\ ManCalled
    /\ Equity > 0 /\ NetResult # 0
    /\ Has(ratios, "ROE (%)")
    /\ ratios["ROE (%)"] # Amount(0)

(***************************************************************************)
(* C10  Net margin.                                                        *)
(***************************************************************************)
\* C10 as stated: Net Margin is absent exactly when Revenue = 0; for every
\* non-zero Revenue, negative ones included, it is present and equals
\* NetResult / Revenue * 100.
C10_AsStated ==
    ManCalled =>
        /\ ~Has(ratios, "Marge Nette (%)") <=> Revenue = 0
        /\ Revenue # 0 =>
             RatEq(ratios["Marge Nette (%)"], <<NetResult * 100, Revenue>>)

\* C10 amended: Net Margin is absent exactly when Revenue <= 0; for every
\* Revenue > 0 it is present and equals NetResult / Revenue * 100.
C10_NetMargin ==
    ManCalled =>
        /\ ~Has(ratios, "Marge Nette (%)") <=> Revenue <= 0
        /\ Revenue > 0 =>
             /\ IsFinite(ratios["Marge Nette (%)"])
             /\ RatEq(ratios["Marge Nette (%)"], <<NetResult * 100, Revenue>>)

\* Positive revenue with charges: the margin is there and below 100 %.
C10_Witness ==
    /\ ManCalled
    /\ Revenue > 0 /\ NetResult # Revenue
    /\ Has(ratios, "Marge Nette (%)")
    /\ RatLT(ratios["Marge Nette (%)"], Amount(100))

(***************************************************************************)
(* C11  Working-capital need and net cash position.                        *)
(***************************************************************************)
Inventories == balance_sheet["Actif"]["Actif Circulant"]["Stocks"]
TradeReceivables == balance_sheet["Actif"]["Actif Circulant"]["Créances clients"]
TradePayables == balance_sheet["Passif"]["Dettes"]["Dettes fournisseurs"]

\* C11: whenever calculate_comprehensive_ratios completes, the RatioSet holds
\* BFR = Inventories + TradeReceivables - TradePayables and Net Cash Position
\* = WorkingCapital - BFR, so WorkingCapital = BFR + NetCash, whether or not
\* the denominator-guarded ratios are present.
C11_BfrNetCash ==
    ManCalled =>
        /\ {"Fond de Roulement (FR)", "BFR Exploitation", "Trésorerie Nette"}
               \subseteq DOMAIN ratios
        /\ ratios["BFR Exploitation"]
               = Amount(Inventories + TradeReceivables - TradePayables)
        /\ ratios["Trésorerie Nette"]
               = Amount((CurrentAssets - Debt)
                        - (Inventories + TradeReceivables - TradePayables))
        /\ ratios["Trésorerie Nette"]
               = Minus(ratios["Fond de Roulement (FR)"], ratios["BFR Exploitation"])
        /\ ratios["Fond de Roulement (FR)"][2] = 1
        /\ ratios["Fond de Roulement (FR)"][1]
               = ratios["BFR Exploitation"][1] + ratios["Trésorerie Nette"][1]

\* No assets (every guarded ratio omitted), trade payables and a loan: BFR and
\* net cash are both there and non-zero.
C11_Witness ==
    /\ ManCalled
    /\ TotalAssets <= 0
    /\ TotalAssetsKeys \cap DOMAIN ratios = {}
    /\ TradePayables > 0
    /\ ratios["BFR Exploitation"] # Amount(0)
    /\ ratios["Trésorerie Nette"] # Amount(0)

(***************************************************************************)
(* C12  Liquidity bands.                                                   *)
(***************************************************************************)
Recommended(titre) == \E i \in DOMAIN Recs : Recs[i].titre = titre

\* The bands of the specification: > 1.5 good, 1.0 to 1.5 inclusive warning,
\* < 1.0 critical.
LiquidityBand(r) ==
    IF RatGT(r, <<3, 2>>) THEN "good"
    ELSE IF ~RatLT(r, Amount(1)) THEN "warning"
    ELSE "critical"

\* C12 as stated: in man.py's interpretation, in get_ratio_interpretation and
\* in app.py's liquidity message, a ratio > 1.5 is good, every ratio from 1.0
\* to 1.5 inclusive is warning, only a ratio < 1.0 is critical, and +infinity
\* is good.
C12_LiquidityBands ==
    /\ ManCalled =>
         LET liquidite == ratios["Ratio de Liquidité"]
             band == LiquidityBand(liquidite)
         IN  /\ interpretations["Liquidité"].couleur
                   = (CASE band = "good" -> "ratio-good"
                        [] band = "warning" -> "ratio-warning"
                        [] band = "critical" -> "ratio-danger")
             /\ get_ratio_interpretation("Ratio de Liquidité", liquidite)
                   = (CASE band = "good" ->
                              "Excellente capacité à honorer les dettes court terme"
                        [] band = "warning" ->
                              "Capacité suffisante mais surveillance recommandée"
                        [] band = "critical" ->
                              "Risque de liquidité - Actions correctives urgentes")
             /\ IsInf(liquidite) => interpretations["Liquidité"].couleur = "ratio-good"
    /\ AppCalled =>
         LET band == LiquidityBand(app_ratios["Ratio_de_Liquidite"])
         IN  AppLiquidityMessage(app_ratios).st
                 = (CASE band = "good" -> "success"
                      [] band = "warning" -> "warning"
                      [] band = "critical" -> "error")

\* C12 away from the limit 1.0: the three classifiers follow the bands.
C12_ExceptAtOne ==
    (Debt > 0 /\ CurrentAssets = Debt) \/ C12_LiquidityBands

(***************************************************************************)
(* C13  Debt-ratio bands.                                                  *)
(***************************************************************************)
\* The bands of the specification: < 50 healthy, 50 to 70 inclusive moderate,
\* > 70 high.
DebtBand(v) ==
    IF RatLT(v, Amount(50)) THEN "healthy"
    ELSE IF ~RatGT(v, Amount(70)) THEN "moderate"
    ELSE "high"

\* C13 as stated: a debt ratio < 50 is healthy, every value from 50 to 70
\* inclusive is moderate, only a value > 70 is high, and the high band holds
\* exactly when 'Reduce indebtedness' is recommended (debt ratio > 70).
C13_DebtBands ==
    (ManCalled /\ Has(ratios, "Taux d'endettement")) =>
        LET endettement == ratios["Taux d'endettement"]
            band == DebtBand(endettement)
        IN  /\ interpretations["Solvabilité"].statut
                  = (CASE band = "healthy" -> "saine"
                       [] band = "moderate" -> "modérée"
                       [] band = "high" -> "élevée")
            /\ get_ratio_interpretation("Taux d'endettement", endettement)
                  = (CASE band = "healthy" -> "Structure financière saine et équilibrée"
                       [] band = "moderate" ->
                             "Endettement modéré - Surveillance recommandée"
                       [] band = "high" ->
                             "Endettement élevé - Risque pour la solvabilité")
            /\ Recommended("Réduire l'endettement") <=> RatGT(endettement, Amount(70))
            /\ interpretations["Solvabilité"].statut = "élevée"
                  <=> Recommended("Réduire l'endettement")

\* C13 away from the limit 70.
C13_ExceptAtSeventy ==
    (TotalAssets > 0 /\ Debt * 100 = 70 * TotalAssets) \/ C13_DebtBands

(***************************************************************************)
(* C14  ROA bands.                                                         *)
(***************************************************************************)
\* The bands of the specification: > 10 excellent, 5 to 10 inclusive
\* satisfactory, < 5 weak.
RoaBand(v) ==
    IF RatGT(v, Amount(10)) THEN "excellent"
    ELSE IF ~RatLT(v, Amount(5)) THEN "satisfactory"
    ELSE "weak"

\* C14 as stated: a ROA > 10 is excellent, every value from 5 to 10 inclusive
\* is satisfactory, only a value < 5 is weak, and the weak band holds exactly
\* when 'Improve profitability' is recommended (ROA < 5).
C14_RoaBands ==
    (ManCalled /\ Has(ratios, "ROA (%)")) =>
        LET roa == ratios["ROA (%)"]
            band == RoaBand(roa)
        IN  /\ interpretations["Rentabilité"].statut
                  = (CASE band = "excellent" -> "excellente"
                       [] band = "satisfactory" -> "satisfaisante"
                       [] band = "weak" -> "faible")
            /\ get_ratio_interpretation("ROA (%)", roa)
                  = (CASE band = "excellent" -> "Rentabilité excellente des actifs"
                       [] band = "satisfactory" -> "Rentabilité satisfaisante"
                       [] band = "weak" -> "Rentabilité à améliorer")
            /\ Recommended("Améliorer la rentabilité") <=> RatLT(roa, Amount(5))
            /\ interpretations["Rentabilité"].statut = "faible"
                  <=> Recommended("Améliorer la rentabilité")

\* C14 away from the limit 5.
C14_ExceptAtFive ==
    (TotalAssets > 0 /\ NetResult * 100 = 5 * TotalAssets) \/ C14_RoaBands

Absent(d) == d = None \/ d = EmptyDict

\* C16: when the balance sheet or the income statement is None or empty, the
\* ratio engine (man.py's and app.py's) returns an empty RatioSet - no key at
\* all, not even Working Capital or the liquidity ratio - and lets no
\* exception escape.
C16_AbsentInputs ==
    (Absent(balance_sheet) \/ Absent(income_statement)) =>
        /\ ManCalled =>
             /\ ratios = EmptyDict
             /\ interpretations = EmptyDict
             /\ "calculate_comprehensive_ratios" \notin raised
        /\ AppCalled =>
             /\ app_ratios = EmptyDict
             /\ "calculate_ratios" \notin raised

\* A filled-in balance sheet with an empty income statement has gone through
\* both engines and the RatioSet is empty.
C16_Witness ==
    /\ ManCalled /\ AppCalled
    /\ income_statement = EmptyDict
    /\ balance_sheet = ScenarioC_BS
    /\ DOMAIN ratios = {} /\ DOMAIN app_ratios = {}

(***************************************************************************)
(* C17  Absent or empty input of the balance engine.                       *)
(***************************************************************************)
\* C17 as stated: calculate_intermediate_balances given None or an empty
\* income statement returns an empty result set without raising; it never
\* returns six balances equal to 0 for an input without line items.
C17_AbsentIncomeStatement ==
    (SigCalled /\ Absent(income_statement)) =>
        /\ sig = <<>>
        /\ "calculate_intermediate_balances" \notin raised

\* C17 for None alone: the AttributeError is caught and the result is empty.
C17_NoneOnly ==
    (SigCalled /\ income_statement = None) =>
        /\ sig = <<>>
        /\ "calculate_intermediate_balances" \notin raised

(***************************************************************************)
(* C18  Records lacking an item or a subsection.                           *)
(***************************************************************************)
\* A record that has line items but not this one.
Lacks(d, k) == Truthy(d) /\ k \notin DOMAIN d

\* The engine reaches the reads of the single items.
ReadsItems ==
    /\ Truthy(balance_sheet) /\ Truthy(income_statement)
    /\ ~RaisesKeyError(balance_sheet)

LacksBfrItem ==
    \/ Lacks(balance_sheet["Actif"]["Actif Circulant"], "Stocks")
    \/ Lacks(balance_sheet["Actif"]["Actif Circulant"], "Créances clients")
    \/ Lacks(balance_sheet["Passif"]["Dettes"], "Dettes fournisseurs")

\* C18 as stated: on a record lacking an expected item or subsection no engine
\* raises, and no returned ratio or balance is computed with 0 in the place
\* of the missing item: without 'Stocks', 'Créances clients' or 'Dettes
\* fournisseurs' there is no BFR and no net cash position, and without
\* 'Chiffre_affaires' there is no ratio or balance that reads the revenue.
C18_NoSubstitutedZero ==
    /\ raised = {}
    /\ (ManCalled /\ ReadsItems) =>
         /\ LacksBfrItem =>
              {"BFR Exploitation", "Trésorerie Nette"} \cap DOMAIN ratios = {}
         /\ Lacks(income_statement, "Chiffre_affaires") =>
              {"ROA (%)", "ROE (%)", "Marge Nette (%)", "Rotation des actifs"}
                  \cap DOMAIN ratios = {}
    /\ (AppCalled /\ Truthy(balance_sheet) /\ Truthy(income_statement)) =>
         (Lacks(income_statement, "Chiffre_affaires") => ~Has(app_ratios, "ROA"))
    /\ (SigCalled /\ Lacks(income_statement, "Chiffre_affaires")) =>
         \A i \in DOMAIN sig : sig[i][1] # "Marge Commerciale"

\* C18, the part about exceptions: no engine lets one escape, and a balance
\* sheet without the 'Dettes' subsection yields the empty RatioSet.
C18_NeverRaises ==
    /\ raised = {}
    /\ (ManCalled /\ Truthy(balance_sheet) /\ Truthy(income_statement)
           /\ RaisesKeyError(balance_sheet)) => ratios = EmptyDict

(***************************************************************************)
(* C19  Division guards in the three variants.                             *)
(***************************************************************************)
App3Called == "app3.calculate_ratios" \in called

\* A value a ratio may hold: a finite number or +infinity.
Defined(r) == r[2] > 0 \/ r = Inf

\* man.py and app.py: a zero denominator gives +infinity for the liquidity
\* ratio and omits the ratios over TotalAssets and Revenue; every value
\* present is defined.
C19_GuardedVariants ==
    /\ ManCalled =>
         /\ Debt = 0 => ratios["Ratio de Liquidité"] = Inf
         /\ TotalAssets = 0 => TotalAssetsKeys \cap DOMAIN ratios = {}
         /\ Revenue = 0 =>
              {"Marge Nette (%)", "Délai moyen stocks (jours)"} \cap DOMAIN ratios = {}
         /\ Equity = 0 => ~Has(ratios, "ROE (%)")
         /\ \A k \in DOMAIN ratios : Defined(ratios[k])
    /\ AppCalled =>
         /\ Debt = 0 => app_ratios["Ratio_de_Liquidite"] = Inf
         /\ TotalAssets = 0 => ~Has(app_ratios, "ROA")
         /\ \A k \in DOMAIN app_ratios : Defined(app_ratios[k])

\* C19 as stated: in app.py, man.py and app3.py alike every division is
\* protected: zero current liabilities give +infinity for the liquidity ratio,
\* a zero TotalAssets or Revenue omits the affected ratio, and no input makes
\* a division by zero fail or leave a ratio with an undefined value.
C19_DivisionGuards ==
    /\ C19_GuardedVariants
    /\ App3Called =>
         /\ bilan_df["Passif Circulant"] = 0 =>
              app3_ratios.ratios["Ratio de Liquidité"] = Inf
         /\ bilan_df["Actif Circulant"] + bilan_df["Actif Immobilisé"] = 0 =>
              {"Taux d'endettement", "ROA"} \cap DOMAIN app3_ratios.ratios = {}
         /\ resultat_df["Chiffre d'affaires"] = 0 =>
              ~Has(app3_ratios.ratios, "Marge nette")
         /\ \A k \in DOMAIN app3_ratios.ratios : Defined(app3_ratios.ratios[k])

(***************************************************************************)
(* C20  Shape of the balance sheet and its flattening.                     *)
(***************************************************************************)
Exported == "generate_comprehensive_report" \in called

\* The section -> subsection -> line-item keys are those of the template.
TemplateHierarchy(bs) ==
    /\ DOMAIN bs = DOMAIN create_balance_sheet_template
    /\ \A c \in DOMAIN bs :
         /\ DOMAIN bs[c] = DOMAIN create_balance_sheet_template[c]
         /\ \A s \in DOMAIN bs[c] :
              DOMAIN bs[c][s] = DOMAIN create_balance_sheet_template[c][s]

\* C20: after any sequence of edits and resets the balance sheet has exactly
\* the template's section -> subsection -> line-item keys, and its flattening
\* has exactly one (category, subcategory, item, amount) row per line item, in
\* template-declaration order, with the current amount; the rows are a
\* function of the data, so two flattenings of the same data are equal.
C20_Flattening ==
    /\ TemplateHierarchy(balance_sheet)
    /\ Exported =>
         /\ Len(bilan_data) = Len(TemplateOrder)
         /\ \A n \in DOMAIN bilan_data :
              /\ DOMAIN bilan_data[n]
                     = {"Catégorie", "Sous-catégorie", "Poste", "Montant (€)"}
              /\ <<bilan_data[n]["Catégorie"], bilan_data[n]["Sous-catégorie"],
                   bilan_data[n]["Poste"]>> = TemplateOrder[n]
              /\ bilan_data[n]["Montant (€)"]
                     = balance_sheet[TemplateOrder[n][1]][TemplateOrder[n][2]]
                                    [TemplateOrder[n][3]]
         /\ \A m, n \in DOMAIN bilan_data :
              m # n => bilan_data[m]["Poste"] # bilan_data[n]["Poste"]

\* Two fields edited, then exported: the fourth row is the 'Stocks' row and
\* carries the amount entered.
C20_Witness ==
    /\ Exported
    /\ edits = MaxEdits
    /\ balance_sheet["Actif"]["Actif Circulant"]["Stocks"] > 0
    /\ balance_sheet["Passif"]["Dettes"]["Dettes fournisseurs"] > 0
    /\ bilan_data[4]["Poste"] = "Stocks"
    /\ bilan_data[4]["Montant (€)"] = balance_sheet["Actif"]["Actif Circulant"]["Stocks"]

(***************************************************************************)
(* C21  Round trip of the flattening.                                      *)
(***************************************************************************)
\* The rows re-aggregated: the sum of the amounts of the rows of one category
\* and, unless sub is "*", of one subcategory.
RECURSIVE GroupSum(_, _, _)
GroupSum(rows, cat, sub) ==
    IF rows = <<>> THEN 0
    ELSE LET row == Head(rows)
             counts == /\ row["Catégorie"] = cat
                       /\ (sub = "*" \/ row["Sous-catégorie"] = sub)
         IN  (IF counts THEN row["Montant (€)"] ELSE 0) + GroupSum(Tail(rows), cat, sub)

\* C21: the amounts of the flattened rows summed by (category, subcategory)
\* give the sum of each subsection of the balance sheet, and summed by
\* category they give the total assets and the total liabilities of the ratio
\* engine.
C21_RoundTrip ==
    Exported =>
        /\ \A c \in DOMAIN balance_sheet : \A s \in DOMAIN balance_sheet[c] :
               GroupSum(bilan_data, c, s) = SumValues(balance_sheet[c][s])
        /\ GroupSum(bilan_data, "Actif", "Actif Circulant") = CurrentAssets
        /\ GroupSum(bilan_data, "Passif", "Dettes") = Debt
        /\ GroupSum(bilan_data, "Actif", "*") = total_actif(balance_sheet)
        /\ GroupSum(bilan_data, "Passif", "*") = total_passif(balance_sheet)
        /\ GroupSum(bilan_data, "Actif", "*") = TotalAssets

\* An exported sheet with a negative and a positive amount in different
\* subsections.
C21_Witness ==
    /\ Exported
    /\ CurrentAssets < 0
    /\ Debt > 0
    /\ GroupSum(bilan_data, "Actif", "*") < 0
    /\ GroupSum(bilan_data, "Passif", "*") > 0

(***************************************************************************)
(* C22  Session start and reset.                                           *)
(***************************************************************************)
\* Every line item of both statements is 0 and the key sets are those of the
\* templates.
ZeroFilled ==
    /\ TemplateHierarchy(balance_sheet)
    /\ \A c \in DOMAIN balance_sheet : \A s \in DOMAIN balance_sheet[c] :
           \A i \in DOMAIN balance_sheet[c][s] : balance_sheet[c][s][i] = 0
    /\ DOMAIN income_statement = DOMAIN create_income_statement_template
    /\ \A k \in DOMAIN income_statement : income_statement[k] = 0

\* The line items of the two statements that are not 0.
NonZeroItems ==
    {p \in {TemplateOrder[n] : n \in 1..Len(TemplateOrder)} : balance_sheet[p[1]][p[2]][p[3]] # 0}
    \cup {<<k>> : k \in {j \in DOMAIN income_statement : income_statement[j] # 0}}

TotalLiabilities == Equity + Debt

\* C24: every amount can be entered in every item and is stored as entered,
\* balanced or not; the status displayed by the run is 'balanced' exactly when
\* |TotalAssets - TotalLiabilities| < 0.01 and comes with the signed
\* difference; and the ratios of an exported sheet are computed whether it
\* balances or not.
C24_BalanceIsATarget ==
    /\ edits < MaxEdits =>
           \A slot \in BalanceSheetSlots, v \in Amounts :
               ENABLED (/\ EditItem(slot, v)
                        /\ balance_sheet'[slot[2]][slot[3]][slot[4]] = v)
    /\ equilibre # None =>
           /\ equilibre.is_balanced <=>
                  Abs(TotalAssets - TotalLiabilities) * 100 < 1
           /\ equilibre.difference = TotalAssets - TotalLiabilities
    /\ Exported =>
           /\ ratios =
                  calculate_comprehensive_ratios(balance_sheet, income_statement).ratios
           /\ TotalAssets # TotalLiabilities => ratios # EmptyDict

\* An unbalanced sheet was entered, its imbalance displayed with a negative
\* difference, and its ratios computed by the export.
C24_Witness ==
    /\ Exported
    /\ edits > 0
    /\ equilibre # None
    /\ ~equilibre.is_balanced
    /\ equilibre.difference < 0
    /\ TotalAssets < TotalLiabilities
    /\ Has(ratios, "Taux d'endettement")

Flags == {"bilan", "compte_resultat", "ratios", "budget"}

AmountEntered ==
    \E p \in {TemplateOrder[n] : n \in 1..Len(TemplateOrder)} :
        balance_sheet[p[1]][p[2]][p[3]] # 0

\* The parts of C30 that do not depend on what was entered: 'bilan' becomes
\* true only in a run of the balance module on a balanced sheet, no edit and
\* no reset of the data clears a flag, and a flag is cleared only by the reset
\* of the progression or the factory reset.
C30_FlagsExceptEmptySheet ==
    /\ [][(~learning_path_completed.bilan /\ learning_path_completed'.bilan) =>
             /\ equilibre' # None
             /\ equilibre'.is_balanced
             /\ Abs(TotalAssets' - TotalLiabilities') * 100 < 1]_vars
    /\ [][(EditAssistant \/ EditIncomeStatement \/ ResetData) =>
             \A f \in Flags :
                 learning_path_completed[f] => learning_path_completed'[f]]_vars
    /\ [][(\E f \in Flags :
               learning_path_completed[f] /\ ~learning_path_completed'[f]) =>
             (ResetProgression \/ FactoryReset)]_vars

\* C30: 'bilan' becomes true only in a run of the balance module on a sheet
\* with |TotalAssets - TotalLiabilities| < 0.01 in which at least one non-zero
\* amount has been entered; a true flag stays true across edits and the reset
\* of the exercise, and becomes false only through the reset of the
\* progression or the factory reset.
C30_LearningPath ==
    /\ C30_FlagsExceptEmptySheet
    /\ [][(~learning_path_completed.bilan /\ learning_path_completed'.bilan) =>
             AmountEntered']_vars

(***************************************************************************)
(* C23  The ratios handed to the later steps of the audit wizard.          *)
(***************************************************************************)
\* C23: whenever a later step (risk detection, recommendations,
\* visualisation, final report) is handed ratios, they are the ratios of the
\* financial data as it stands at that moment; after the data is entered or
\* imported again no step works on the ratios of the earlier data.
C23_NoStaleRatios ==
    (consumer_args # None /\ consumer_args.ratios # None) =>
        consumer_args.ratios = calculate_all_ratios(consumer_args.financial_data)

(***************************************************************************)
(* C29  Prerequisites of the steps of the audit wizard.                    *)
(***************************************************************************)
SessionWrites == <<financial_data, audit_ratios, risks, recommendations, whatif_scenarios>>

AnalysisShown == "show_financial_analysis" \in called

AppRecommendsLiquidity ==
    \E i \in DOMAIN app_recommendations :
        /\ app_recommendations[i]["Priorité"] = "Haute"
        /\ app_recommendations[i]["Recommandation"] =
               "Améliorer la liquidité : réduire le BFR, renégocier les délais fournisseurs"

\* man.py alone: without debt the engine reports an infinite liquidity ratio
\* and does not recommend to improve the liquidity.
C25_ManOnly ==
    (ManCalled /\ Debt = 0) =>
        /\ IsInf(ratios["Ratio de Liquidité"])
        /\ ~Recommended("Améliorer la liquidité")

\* C25: a company without debt never gets the high-priority recommendation to
\* improve its liquidity, in man.py's engine or in app.py's recommendation
\* tab: the engines report an infinite liquidity ratio and the rule tests that
\* value.
C25_NoAdviceWithoutDebt ==
    /\ C25_ManOnly
    /\ (AnalysisShown /\ Debt = 0) =>
           /\ IsInf(app_ratios["Ratio_de_Liquidite"])
           /\ ~AppRecommendsLiquidity

(***************************************************************************)
(* C26  The two net results.                                               *)
(***************************************************************************)
\* The 'Résultat Net' of the balances.
SigNetResult == sig[6][2]

\* The net result n is the one the ratio engines computed: their ROA is
\* n / TotalAssets * 100.
EngineNetResultIs(n) ==
    /\ ManCalled => RatEq(ratios["ROA (%)"], <<n * 100, TotalAssets>>)
    /\ AppCalled => RatEq(app_ratios["ROA"], <<n * 100, TotalAssets>>)

NetResultGap ==
    2 * InventoryVariation + TaxesAndDuties + OtherExpenses + FinancialIncome

\* C26: with Revenue > 0 the 'Résultat Net' of the balances exceeds the net
\* result of the ratio engine by 2*Variation_stocks + Impots_taxes +
\* Autres_charges + Produits_financiers, so that the two are equal exactly
\* when that sum is 0; with Revenue <= 0 the balances lose the commercial
\* margin Revenue - Achats_marchandises + Variation_stocks on top of it.
C26_NetResultGap ==
    (SigCalled /\ (ManCalled \/ AppCalled)) =>
        /\ sig[6][1] = "Résultat Net"
        /\ Revenue > 0 =>
               /\ EngineNetResultIs(SigNetResult - NetResultGap)
               /\ EngineNetResultIs(SigNetResult) <=> NetResultGap = 0
        /\ Revenue <= 0 =>
               EngineNetResultIs(SigNetResult - NetResultGap
                                 + (Revenue - PurchasesOfGoods + InventoryVariation))

\* Both engines and the balances have run on a statement with revenue, a
\* variation of the inventories and financial income.
C26_Witness ==
    /\ SigCalled /\ ManCalled /\ AppCalled
    /\ Revenue > 0
    /\ InventoryVariation # 0
    /\ NetResultGap # 0
    /\ SigNetResult # NetResult

\* The same with a negative revenue and purchases.
C26_WitnessNoRevenue ==
    /\ SigCalled /\ ManCalled
    /\ Revenue < 0
    /\ PurchasesOfGoods > 0

(***************************************************************************)
(* C27  The three classifiers of man.py.                                   *)
(***************************************************************************)
\* The axis `axe` of the action plan carries the status `statut`.
Axis(axe, statut) ==
    LET axes == axes_amelioration(ratios)
    IN  \E i \in DOMAIN axes : axes[i][1] = axe /\ axes[i][2] = statut

LiquidityClassifiedCritical ==
    interpretations["Liquidité"].statut = "critique"

DebtClassifiedHigh ==
    interpretations["Solvabilité"].statut = "élevée"

\* C27: calculate_comprehensive_ratios' interpretations,
\* get_ratio_interpretation and the axes of the action plan put a liquidity
\* ratio in the critical band for the same values and a debt ratio in the
\* high/critical band for the same values, the limits 1.0, 1.5, 50 and 70
\* included, and 'Améliorer la liquidité' is recommended exactly when the
\* interpretation of the liquidity is 'critique'.
C27_ClassifiersAgree ==
    ManCalled =>
        LET liquidite   == Get(ratios, "Ratio de Liquidité", Amount(0))
            endettement == Get(ratios, "Taux d'endettement", Amount(0))
        IN  /\ LiquidityClassifiedCritical
                  <=> get_ratio_interpretation("Ratio de Liquidité", liquidite)
                          = "Risque de liquidité - Actions correctives urgentes"
            /\ LiquidityClassifiedCritical <=> Axis("Liquidité", "Critique")
            /\ DebtClassifiedHigh
                  <=> get_ratio_interpretation("Taux d'endettement", endettement)
                          = "Endettement élevé - Risque pour la solvabilité"
            /\ DebtClassifiedHigh <=> Axis("Endettement", "Critique")
            /\ Recommended("Améliorer la liquidité") <=> LiquidityClassifiedCritical

\* C27 away from the limits: the classifiers disagree only on a liquidity
\* ratio of exactly 1.0 and on a debt ratio of exactly 70.
C27_ExceptAtLimits ==
    \/ Debt > 0 /\ CurrentAssets = Debt
    \/ TotalAssets > 0 /\ Debt * 100 = 70 * TotalAssets
    \/ C27_ClassifiersAgree

\* The two classifiers that share their tests agree at the limits too.
C27_InterpretationsAgree ==
    ManCalled =>
        /\ LiquidityClassifiedCritical
              <=> get_ratio_interpretation("Ratio de Liquidité",
                        Get(ratios, "Ratio de Liquidité", Amount(0)))
                      = "Risque de liquidité - Actions correctives urgentes"
        /\ DebtClassifiedHigh
              <=> get_ratio_interpretation("Taux d'endettement",
                        Get(ratios, "Taux d'endettement", Amount(0)))
                      = "Endettement élevé - Risque pour la solvabilité"

====
